---------------------------- MODULE Spec2Model ----------------------------
(***************************************************************************)
(* Model of src/data_preprocessing/handle_duplicate_values.py:             *)
(* handle_duplicate_values_drop (exact duplicates, pandas drop_duplicates) *)
(* and handle_duplicate_values_fuzzy (pairwise rapidfuzz ratio, cluster    *)
(* list built by scan-and-insert-or-create, first index of each cluster    *)
(* kept).                                                                  *)
(*                                                                         *)
(* A table is a record [columns, index, rows]: the ordered column names,   *)
(* the row labels (data.index) and, per position, the row as a function    *)
(* from column name to cell.  A cell is [s |-> <<chars>>] (a Python str)   *)
(* or [n |-> k] (a Python int).  Ratios are kept as exact fractions        *)
(* <<num, den>>; the code computes them in binary floating point.          *)
(***************************************************************************)
EXTENDS Integers, Sequences, FiniteSets, TLC

VARIABLES
    data,                        \* the caller's table
    subset,                      \* the caller's subset argument
    range_arg,                   \* the caller's ratio_range argument (<<>> is None)
    pc,                          \* position of the caller / of the fuzzy loop
    ratio_range,                 \* local ratio_range of handle_duplicate_values_fuzzy
    comparison_columns,          \* local of handle_duplicate_values_fuzzy
    data_duplicated_sets,        \* list of sets of row labels
    k,                           \* position in combinations(data.index, 2)
    data_duplicated_index_show,  \* sorted list
    data_duplicated_index_drop,  \* sorted list
    data_cleaned_fuzzy,          \* value returned by handle_duplicate_values_fuzzy
    fuzzy_exc,                   \* exception raised by it, "none" if it returned
    data_cleaned_drop,           \* value returned by handle_duplicate_values_drop
    drop_exc,                    \* exception raised by it, "none" if it returned
    pandas_raises,               \* the installed pandas raises where versions differ
    returned,                    \* what the caller's earlier calls were given and gave
    \* convert_datatype.py
    ud_original,                 \* the table the caller had before the call
    ud_data,                     \* data of convert_datatype_ud, the caller's table
    convert_scenario,            \* the caller's scenario dict
    convert_scenario_zipped,     \* local of convert_datatype_ud
    ud_k,                        \* position in convert_scenario_zipped
    ud_pc,                       \* position in convert_datatype_ud
    ud_error,                    \* the error convert_datatype_ud logged, "none" without
    \* scale_feature.py
    sf_original,                 \* the table the caller had before the call
    sf_data,                     \* data of scale_feature, the caller's table
    scale_scenario,              \* the caller's scenario dict
    apply_l2normalization,       \* the caller's flag
    sf_observing_columns,        \* observing_columns of scale_feature
    scale_scenario_zipped,       \* local of scale_feature
    sf_k,                        \* position in scale_scenario_zipped
    sf_pc,                       \* position in scale_feature
    sf_error,                    \* the error scale_feature logged, "none" without
    \* get_observing_columns
    oc_data,                     \* data of get_observing_columns
    columns_subset,              \* the caller's columns_subset
    observing_columns,           \* the list get_observing_columns returned
    oc_pc,                       \* which get_observing_columns was called, if any
    \* detect_outliers and handle_outliers
    ho_original,                 \* the table given to detect_outliers and handle_outliers
    ho_data,                     \* data of handle_outliers
    detect_outlier_method,       \* the argument of detect_outliers
    ho_columns_subset,           \* columns_subset of detect_outliers
    per_column_detection,        \* the argument of detect_outliers
    handle_outlier_method,       \* the argument of handle_outliers
    refuses_upcast,              \* the installed pandas raises on a lossy upcast in a set
    outliers,                    \* the dict of index lists detect_outliers returned
    boundries,                   \* the dict of boundaries detect_outliers returned
    all_drop_indexes,            \* the union of the lists
    ho_k,                        \* position of the loop over outliers.keys()
    ho_pc,                       \* "idle", "start", "detected", "match", "returned", "raised"
    ho_exc,                      \* the exception handle_outliers raised, "none" without
    \* handle_missing_values.py
    mv_original,                 \* the table the caller had before the call
    mv_data,                     \* data of the imputation function, the caller's table
    adjancent_imputation_method, \* the argument of the imputation function
    time_reference_col,          \* the argument of the imputation function
    mv_returned,                 \* the table the imputation function returned
    mv_exc,                      \* the exception it raised, "none" without
    mv_pc,                       \* "idle", "start", "returned", "raised"
    \* main() of the scripts
    script,                      \* the script that is run
    argv_case,                   \* how len(sys.argv) falls: too few, a case of the match, none
    dataset_file,                \* what dataset_path holds: no csv, a csv without rows, rows
    dir_before,                  \* the output directory before the run
    dir_exists,                  \* the output directory exists
    dir_files,                   \* the files of the output directory
    fs_log,                      \* the operations main() made on the file system, in order
    out_k,                       \* the output that main() is at
    main_exc,                    \* the exception main() raised, "none" without
    main_pc                      \* position in main()

\* handle_duplicate_values.py
dupVars == <<data, subset, range_arg, pc, ratio_range, comparison_columns,
             data_duplicated_sets, k, data_duplicated_index_show,
             data_duplicated_index_drop, data_cleaned_fuzzy, fuzzy_exc,
             data_cleaned_drop, drop_exc, pandas_raises, returned>>

\* convert_datatype.py
convertVars == <<ud_original, ud_data, convert_scenario, convert_scenario_zipped,
                 ud_k, ud_pc, ud_error>>

\* scale_feature.py
scaleVars == <<sf_original, sf_data, scale_scenario, apply_l2normalization,
               sf_observing_columns, scale_scenario_zipped, sf_k, sf_pc, sf_error>>

\* get_observing_columns
columnsVars == <<oc_data, columns_subset, observing_columns, oc_pc>>

\* handle_outliers.py
outlierVars == <<ho_original, ho_data, detect_outlier_method, ho_columns_subset,
                 per_column_detection, handle_outlier_method, refuses_upcast, outliers,
                 boundries, all_drop_indexes, ho_k, ho_pc, ho_exc>>

\* handle_missing_values.py
missingVars == <<mv_original, mv_data, adjancent_imputation_method, time_reference_col,
                 mv_returned, mv_exc, mv_pc>>

\* main() of the scripts
mainVars == <<script, argv_case, dataset_file, dir_before, dir_exists, dir_files,
              fs_log, out_k, main_exc, main_pc>>

\* the variables of the other scripts
outsideDuplicates == <<convertVars, scaleVars, columnsVars, outlierVars, missingVars, mainVars>>

outsideConvert == <<dupVars, scaleVars, columnsVars, outlierVars, missingVars, mainVars>>

outsideScale == <<dupVars, convertVars, columnsVars, outlierVars, missingVars, mainVars>>

outsideColumns == <<dupVars, convertVars, scaleVars, outlierVars, missingVars, mainVars>>

outsideOutliers == <<dupVars, convertVars, scaleVars, columnsVars, missingVars, mainVars>>

outsideMissing == <<dupVars, convertVars, scaleVars, columnsVars, outlierVars, mainVars>>

outsideMain == <<dupVars, convertVars, scaleVars, columnsVars, outlierVars, missingVars>>

vars == <<dupVars, convertVars, scaleVars, columnsVars, outlierVars, missingVars, mainVars>>

\* Largest number of rows of the tables drawn from RowPool.
MaxRows == 4

\* Largest number of rows of the pool tables a caller calls the functions on
\* more than once.
MaxRepeatRows == 2

\* Largest number of times a caller calls the two functions on one table.
MaxCalls == 3

\* Largest number of rows of the tables drawn from ChainPool.
MaxChainRows == 4

---------------------------------------------------------------------------
(* Generic helpers *)

Range(f) == {f[x] : x \in DOMAIN f}

Max(a, b) == IF a >= b THEN a ELSE b

MinOf(S) == CHOOSE x \in S : \A y \in S : x <= y

\* sorted(list(S)) for a set of integers
RECURSIVE Sorted(_)
Sorted(S) ==
    IF S = {} THEN <<>> ELSE <<MinOf(S)>> \o Sorted(S \ {MinOf(S)})

RECURSIVE UnionAll(_)
UnionAll(sets) ==
    IF sets = <<>> THEN {} ELSE Head(sets) \cup UnionAll(Tail(sets))

---------------------------------------------------------------------------
(* Cells and Python string operations *)

StrCell(chars) == [s |-> chars]

IntCell(v) == [n |-> v]

IsStrCell(cell) == DOMAIN cell = {"s"}

Digit(d) == <<"0", "1", "2", "3", "4", "5", "6", "7", "8", "9">>[d + 1]

\* decimal digits of a natural number
RECURSIVE Digits(_)
Digits(v) ==
    IF v < 10 THEN <<Digit(v)>> ELSE Digits(v \div 10) \o <<Digit(v % 10)>>

\* str(cell): a str is returned as it is, an int as its decimal digits
Str(cell) == IF IsStrCell(cell) THEN cell.s ELSE Digits(cell.n)

UpperToLower ==
    ("A" :> "a") @@ ("B" :> "b") @@ ("C" :> "c") @@ ("D" :> "d") @@
    ("E" :> "e") @@ ("F" :> "f") @@ ("G" :> "g") @@ ("H" :> "h") @@
    ("I" :> "i") @@ ("J" :> "j") @@ ("K" :> "k") @@ ("L" :> "l") @@
    ("M" :> "m") @@ ("N" :> "n") @@ ("O" :> "o") @@ ("P" :> "p") @@
    ("Q" :> "q") @@ ("R" :> "r") @@ ("S" :> "s") @@ ("T" :> "t") @@
    ("U" :> "u") @@ ("V" :> "v") @@ ("W" :> "w") @@ ("X" :> "x") @@
    ("Y" :> "y") @@ ("Z" :> "z")

\* str.lower()
Lower(chars) ==
    [p \in 1..Len(chars) |->
        IF chars[p] \in DOMAIN UpperToLower THEN UpperToLower[chars[p]]
        ELSE chars[p]]

IsSpace(c) == c \in {" ", "\t", "\n"}

RECURSIVE LStrip(_)
LStrip(chars) ==
    IF chars = <<>> THEN chars
    ELSE IF IsSpace(Head(chars)) THEN LStrip(Tail(chars))
    ELSE chars

RECURSIVE RStrip(_)
RStrip(chars) ==
    IF chars = <<>> THEN chars
    ELSE IF IsSpace(chars[Len(chars)])
         THEN RStrip(SubSeq(chars, 1, Len(chars) - 1))
    ELSE chars

\* str.strip()
Strip(chars) == RStrip(LStrip(chars))

\* str(value).lower().strip(), the argument given to fuzz.ratio
Normalize(cell) == Strip(Lower(Str(cell)))

---------------------------------------------------------------------------
(* Tables *)

MkTable(columns, rows) ==
    [columns |-> columns, index |-> [p \in 1..Len(rows) |-> p - 1], rows |-> rows]

NumRows(t) == Len(t.index)

\* position of the row labelled i
PosOf(t, i) == CHOOSE p \in 1..Len(t.index) : t.index[p] = i

\* data.loc[i, col]
Loc(t, i, col) == t.rows[PosOf(t, i)][col]

\* Faulty variant of KeepPositions: the kept rows come out in reverse order.
RECURSIVE KeepPositionsReversed(_, _, _)
KeepPositionsReversed(t, keep, p) ==
    IF p > Len(t.index) THEN [columns |-> t.columns, index |-> <<>>, rows |-> <<>>]
    ELSE LET rest == KeepPositionsReversed(t, keep, p + 1) IN
         IF keep[p]
         THEN [columns |-> t.columns,
               index |-> rest.index \o <<t.index[p]>>,
               rows |-> rest.rows \o <<t.rows[p]>>]
         ELSE rest

\* the rows of t at the positions where keep holds, labels kept
RECURSIVE KeepPositions(_, _, _)
KeepPositions(t, keep, p) ==
    IF p > Len(t.index) THEN [columns |-> t.columns, index |-> <<>>, rows |-> <<>>]
    ELSE LET rest == KeepPositions(t, keep, p + 1) IN
         IF keep[p]
         THEN [columns |-> t.columns,
               index |-> <<t.index[p]>> \o rest.index,
               rows |-> <<t.rows[p]>> \o rest.rows]
         ELSE rest


\* data.drop(labels): the rows whose label is not in labels
DropLabels(t, labels) ==
    KeepPositions(t, [p \in 1..Len(t.index) |-> t.index[p] \notin Range(labels)], 1)

---------------------------------------------------------------------------
(* Arguments *)

NoneSubset == [is_none |-> TRUE, cols |-> <<>>]

ListSubset(cols) == [is_none |-> FALSE, cols |-> cols]

\* truth value of the subset argument: None and [] are both false
Truthy(sub) == ~sub.is_none /\ sub.cols # <<>>

---------------------------------------------------------------------------
(* Inputs *)

Name == "Name"

City == "City"

RowPool ==
    { (Name :> StrCell(<<"a">>))      @@ (City :> StrCell(<<"a">>)),
      (Name :> StrCell(<<"A", " ">>)) @@ (City :> StrCell(<<"b">>)),
      (Name :> StrCell(<<"a", "b", "b", "b">>)) @@ (City :> StrCell(<<"a">>)) }

PoolTables ==
    UNION { { MkTable(<<Name, City>>, rows) : rows \in [1..n -> RowPool] } : n \in 0..MaxRows }

\* tables that have rows and no columns
NoColumnTables == { MkTable(<<>>, [p \in 1..n |-> <<>>]) : n \in {0, 2} }

\* the fixture fuzzy_data of tests/test_handle_duplicate_values.py
fuzzy_data ==
    MkTable(<<Name, City>>, <<
      (Name :> StrCell(<<"A", "l", "i", "c", "e", " ", "S", "m", "i", "t", "h">>)) @@ (City :> StrCell(<<"B", "e", "r", "l", "i", "n">>)),
      (Name :> StrCell(<<"A", "l", "i", "c", " ", "S", "m", "i", "t", "h">>)) @@ (City :> StrCell(<<"B", "e", "r", "l", "i", "n">>)),
      (Name :> StrCell(<<"B", "o", "b", " ", "J", "o", "n", "e", "s">>)) @@ (City :> StrCell(<<"M", "u", "n", "i", "c", "h">>)),
      (Name :> StrCell(<<"C", "h", "a", "r", "l", "i", "e", " ", "B", "r", "o", "w", "n">>)) @@ (City :> StrCell(<<"H", "a", "m", "b", "u", "r", "g">>)),
      (Name :> StrCell(<<"C", "h", "a", "r", "l", "i", " ", "B", "r", "o", "w", "n", "e">>)) @@ (City :> StrCell(<<"H", "a", "m", "b", "u", "r", "g">>)) >>)

\* the fixture sample_data of tests/test_handle_duplicate_values.py
sample_data ==
    MkTable(<<"First Name", "Last Name", "Age">>, <<
      ("First Name" :> StrCell(<<"A", "l", "i", "c", "e">>)) @@ ("Last Name" :> StrCell(<<"S", "m", "i", "t", "h">>)) @@ ("Age" :> IntCell(30)),
      ("First Name" :> StrCell(<<"A", "l", "i", "c", "e">>)) @@ ("Last Name" :> StrCell(<<"S", "m", "i", "t", "h">>)) @@ ("Age" :> IntCell(30)),
      ("First Name" :> StrCell(<<"B", "o", "b">>)) @@ ("Last Name" :> StrCell(<<"J", "o", "n", "e", "s">>)) @@ ("Age" :> IntCell(25)),
      ("First Name" :> StrCell(<<"C", "h", "a", "r", "l", "i", "e">>)) @@ ("Last Name" :> StrCell(<<"B", "r", "o", "w", "n">>)) @@ ("Age" :> IntCell(40)),
      ("First Name" :> StrCell(<<"C", "h", "a", "r", "l", "i", "e">>)) @@ ("Last Name" :> StrCell(<<"B", "r", "o", "w", "n">>)) @@ ("Age" :> IntCell(35)),
      ("First Name" :> StrCell(<<"C", "h", "a", "r", "l", "i", "e">>)) @@ ("Last Name" :> StrCell(<<"B", "r", "o", "w", "n", "e">>)) @@ ("Age" :> IntCell(40)) >>)

\* four rows of which each is similar (ratio 50) to the next one only
ChainPool ==
    { (Name :> StrCell(<<"a", "a">>)) @@ (City :> StrCell(<<"a", "a">>)),
      (Name :> StrCell(<<"a", "b">>)) @@ (City :> StrCell(<<"a", "b">>)),
      (Name :> StrCell(<<"b", "c">>)) @@ (City :> StrCell(<<"b", "c">>)),
      (Name :> StrCell(<<"c", "c">>)) @@ (City :> StrCell(<<"c", "c">>)) }

ChainTables ==
    UNION { { MkTable(<<Name, City>>, rows) : rows \in [1..n -> ChainPool] } : n \in 0..MaxChainRows }
    \cup {fuzzy_data}

\* the subsets tried on the chain tables: None and the first column
ChainSubsets == {NoneSubset, ListSubset(<<Name>>)}

\* the ratio_range arguments tried on the chain tables
ChainRanges == {<<>>, <<50, 100>>, <<50, 99>>}

\* the tables a caller calls the functions on more than once
RepeatTables ==
    UNION { { MkTable(<<Name, City>>, rows) : rows \in [1..n -> RowPool] } : n \in 0..MaxRepeatRows }
    \cup {MkTable(<<>>, <<<<>>, <<>>>>), fuzzy_data}

Tables == PoolTables \cup NoColumnTables \cup {fuzzy_data, sample_data}

\* the subsets tried on table t: None, [], its first column, its second
\* column, a column the table does not have and, when the table has more
\* than two columns, its first two
SubsetsFor(t) ==
    {NoneSubset, ListSubset(<<>>), ListSubset(<<"Zip">>)}
    \cup (IF Len(t.columns) >= 2
          THEN {ListSubset(<<t.columns[1]>>), ListSubset(<<t.columns[2]>>)}
          ELSE {})
    \cup (IF Len(t.columns) > 2
          THEN {ListSubset(<<t.columns[1], t.columns[2]>>)}
          ELSE {})

\* the ratio_range arguments tried: None, and (low, high) pairs
Ranges == {<<>>, <<100, 100>>, <<50, 100>>, <<95, 99>>, <<50, 99>>, <<100, 50>>}

\* the cells of the input tables
InputCells ==
    UNION ({Range(r) : r \in RowPool \cup ChainPool}
           \cup {Range(fuzzy_data.rows[p]) : p \in 1..Len(fuzzy_data.rows)}
           \cup {Range(sample_data.rows[p]) : p \in 1..Len(sample_data.rows)})

NoTable == [columns |-> <<>>, index |-> <<>>, rows |-> <<>>]

---------------------------------------------------------------------------
(* rapidfuzz.fuzz.ratio: the normalized Indel similarity,                  *)
(* 100 * 2 * LCS(a, b) / (len(a) + len(b)), and 100 for two empty strings. *)

\* One row of the longest-common-subsequence table: prev is the row of the
\* previous character of a, cur the part of this row built so far.
RECURSIVE LcsRow(_, _, _, _)
LcsRow(prev, ch, b, cur) ==
    LET j == Len(cur) IN
    IF j > Len(b) THEN cur
    ELSE LET v == IF ch = b[j] THEN prev[j] + 1
                  ELSE Max(prev[j + 1], cur[j])
         IN LcsRow(prev, ch, b, Append(cur, v))

RECURSIVE LcsTable(_, _, _)
LcsTable(a, b, prev) ==
    IF a = <<>> THEN prev
    ELSE LcsTable(Tail(a), b, LcsRow(prev, Head(a), b, <<0>>))

LcsLen(a, b) == LcsTable(a, b, [j \in 1..(Len(b) + 1) |-> 0])[Len(b) + 1]

\* fuzz.ratio(a, b) as the fraction <<numerator, denominator>>
FuzzRatio(a, b) ==
    IF Len(a) + Len(b) = 0 THEN <<100, 1>>
    ELSE <<200 * LcsLen(a, b), Len(a) + Len(b)>>

\* fuzz.ratio(str(x).lower().strip(), str(y).lower().strip())
CellRatio(x, y) == FuzzRatio(Normalize(x), Normalize(y))

\* CellRatio of every two cells of the input tables, computed once
CellRatios == [x \in InputCells |-> [y \in InputCells |-> CellRatio(x, y)]]

FracAdd(x, y) == <<x[1] * y[2] + y[1] * x[2], x[2] * y[2]>>

\* sum(column_similarity_ratios)
RECURSIVE FracSum(_)
FracSum(fs) == IF fs = <<>> THEN <<0, 1>> ELSE FracAdd(Head(fs), FracSum(Tail(fs)))

---------------------------------------------------------------------------
(* handle_duplicate_values_drop *)

\* Faulty variant of EqualOn: only the first column of cols is compared.
EqualOnFirstColumn(t, cols, p, q) ==
    cols # <<>> => t.rows[p][cols[1]] = t.rows[q][cols[1]]

\* two rows are equal on every column of cols
EqualOn(t, cols, p, q) == \A c \in Range(cols) : t.rows[p][c] = t.rows[q][c]

\* Faulty variant of DropDuplicates: keep='last'.
DropDuplicatesKeepLast(t, cols) ==
    KeepPositions(t,
        [p \in 1..Len(t.index) |->
            ~\E q \in (p + 1)..Len(t.index) : EqualOn(t, cols, p, q)], 1)

\* DataFrame.drop_duplicates(subset=cols), keep='first'
DropDuplicates(t, cols) ==
    KeepPositions(t,
        [p \in 1..Len(t.index) |-> ~\E q \in 1..(p - 1) : EqualOn(t, cols, p, q)], 1)

\* the columns pandas compares: all of them when subset is None
PandasSubset(t, sub) == IF sub.is_none THEN t.columns ELSE sub.cols

\* Faulty variant of DropOutcomes: the subset is looked up before the frame
\* is found empty.
DropOutcomesSubsetFirst(t, sub) ==
    IF ~(Range(PandasSubset(t, sub)) \subseteq Range(t.columns))
    THEN {<<"KeyError", t>>}
    ELSE {<<"none", DropDuplicates(t, PandasSubset(t, sub))>>}

\* The outcomes of handle_duplicate_values_drop(data, subset): <<exception, table>>.
\* An empty frame is copied before the subset is looked at; a frame with rows
\* and no columns makes duplicated() return an empty mask, which the logging
\* line indexes the frame with; a subset naming a missing column is a KeyError;
\* an empty list as subset is left to the pandas version at hand.
DropOutcomes(t, sub) ==
    IF Len(t.index) = 0 THEN {<<"none", t>>}
    ELSE IF Len(t.columns) = 0 THEN {<<"none", t>>, <<"IndexingError", t>>}
    ELSE IF ~(Range(PandasSubset(t, sub)) \subseteq Range(t.columns))
         THEN {<<"KeyError", t>>}
    ELSE IF PandasSubset(t, sub) = <<>> THEN {<<"none", t>>, <<"ValueError", t>>}
    ELSE {<<"none", DropDuplicates(t, PandasSubset(t, sub))>>}

\* pandas versions differ in what the call does
VersionDependent(t, sub) == Cardinality(DropOutcomes(t, sub)) > 1

---------------------------------------------------------------------------
(* handle_duplicate_values_fuzzy *)

DefaultLow == 90

DefaultHigh == 100

\* Faulty variant of EmptyList: the list an earlier call left behind.
PreviousList == data_duplicated_sets

\* data_duplicated_sets = []
EmptyList == <<>>

\* if ratio_range is None: ratio_range = (90,100)
ResolveRange(r) == IF r = <<>> THEN <<DefaultLow, DefaultHigh>> ELSE r

\* comparison_columns = subset if subset else data.columns
ResolveColumns(t, sub) == IF Truthy(sub) THEN sub.cols ELSE t.columns

RECURSIVE PairsFrom(_, _, _)
PairsFrom(p, q, n) ==
    IF p >= n THEN <<>>
    ELSE IF q > n THEN PairsFrom(p + 1, p + 2, n)
    ELSE <<<<p, q>>>> \o PairsFrom(p, q + 1, n)

\* combinations(data.index, 2), in the order itertools yields them
Combinations2(index) ==
    LET ps == PairsFrom(1, 2, Len(index)) IN
    [m \in 1..Len(ps) |-> <<index[ps[m][1]], index[ps[m][2]]>>]

\* column_similarity_ratios of the pair (i, j)
ColumnRatios(t, cols, i, j) ==
    [c \in 1..Len(cols) |-> CellRatios[Loc(t, i, cols[c])][Loc(t, j, cols[c])]]

\* sum(column_similarity_ratios)/len(column_similarity_ratios), len > 0
AvgRatio(fs) == <<FracSum(fs)[1], FracSum(fs)[2] * Len(fs)>>

\* Faulty variant of InRange: the low bound is exclusive.
InRangeStrictLow(rng, avg) == rng[1] * avg[2] < avg[1] /\ avg[1] <= rng[2] * avg[2]

\* Faulty variant of InRange: the comparison with the low bound is reversed.
InRangeLowReversed(rng, avg) == avg[1] <= rng[1] * avg[2] /\ avg[1] <= rng[2] * avg[2]

\* ratio_range[0] <= rows_similarity_avg_ratio <= ratio_range[1]
InRange(rng, avg) == rng[1] * avg[2] <= avg[1] /\ avg[1] <= rng[2] * avg[2]

\* the exception the body of the pair loop raises on table t with columns
\* cols: data.loc[i, col] on a missing column, the division by len of an
\* empty list
PairException(t, cols) ==
    IF \E c \in Range(cols) : c \notin Range(t.columns) THEN "KeyError"
    ELSE IF Len(cols) = 0 THEN "ZeroDivisionError"
    ELSE "none"

\* Faulty variant of AddPair: only i is added to the set found.
AddPairOnlyFirst(sets, i, j) ==
    IF Len(sets) = 0 THEN <<{i, j}>>
    ELSE IF \E m \in 1..Len(sets) : i \in sets[m] \/ j \in sets[m]
         THEN LET m == MinOf({x \in 1..Len(sets) : i \in sets[x] \/ j \in sets[x]})
              IN [sets EXCEPT ![m] = @ \cup {i}]
    ELSE Append(sets, {i, j})

\* Faulty variant of AddPair: the last set that holds i or j gets both.
AddPairLastMatch(sets, i, j) ==
    IF Len(sets) = 0 THEN <<{i, j}>>
    ELSE IF \E m \in 1..Len(sets) : i \in sets[m] \/ j \in sets[m]
         THEN LET hold == {x \in 1..Len(sets) : i \in sets[x] \/ j \in sets[x]}
                  m == CHOOSE x \in hold : \A y \in hold : y <= x
              IN [sets EXCEPT ![m] = @ \cup {i, j}]
    ELSE Append(sets, {i, j})

\* Faulty variant of AddPair: the sets that hold i or j are merged into the
\* first of them.
AddPairMerging(sets, i, j) ==
    IF \E m \in 1..Len(sets) : i \in sets[m] \/ j \in sets[m]
    THEN LET hold == {x \in 1..Len(sets) : i \in sets[x] \/ j \in sets[x]}
             m == MinOf(hold)
             merged == UNION {sets[x] : x \in hold} \cup {i, j}
         IN SelectSeq([x \in 1..Len(sets) |-> IF x = m THEN merged
                                               ELSE IF x \in hold THEN {} ELSE sets[x]],
                      LAMBDA c : c # {})
    ELSE Append(sets, {i, j})

\* Faulty variant of AddPair: every accepted pair makes a new set.
AddPairAlwaysNew(sets, i, j) == Append(sets, {i, j})

\* Faulty variant of AddPair: a set that holds i or j gets j only.
AddPairOnlySecond(sets, i, j) ==
    IF Len(sets) = 0 THEN <<{i, j}>>
    ELSE IF \E m \in 1..Len(sets) : i \in sets[m] \/ j \in sets[m]
         THEN LET m == MinOf({x \in 1..Len(sets) : i \in sets[x] \/ j \in sets[x]})
              IN [sets EXCEPT ![m] = @ \cup {j}]
    ELSE Append(sets, {i, j})

\* the first set of the list that holds i or j gets both; without one a new
\* set {i, j} is appended
AddPair(sets, i, j) ==
    IF Len(sets) = 0 THEN <<{i, j}>>
    ELSE IF \E m \in 1..Len(sets) : i \in sets[m] \/ j \in sets[m]
         THEN LET m == MinOf({x \in 1..Len(sets) : i \in sets[x] \/ j \in sets[x]})
              IN [sets EXCEPT ![m] = @ \cup {i, j}]
    ELSE Append(sets, {i, j})

\* one iteration of the pair loop, for a pair whose ratios can be computed
PairStep(t, cols, rng, sets, pair) ==
    IF InRange(rng, AvgRatio(ColumnRatios(t, cols, pair[1], pair[2])))
    THEN AddPair(sets, pair[1], pair[2])
    ELSE sets

\* the pair loop from the m-th pair on, for a table whose ratios can be computed
RECURSIVE PairLoop(_, _, _, _, _)
PairLoop(t, cols, rng, sets, m) ==
    IF m > Len(Combinations2(t.index)) THEN sets
    ELSE PairLoop(t, cols, rng,
                  PairStep(t, cols, rng, sets, Combinations2(t.index)[m]), m + 1)

\* Faulty variant of RemoveFirsts: the last element of each set is removed.
RemoveLasts(sets) ==
    [m \in 1..Len(sets) |-> sets[m] \ {CHOOSE x \in sets[m] : \A y \in sets[m] : y <= x}]

\* d_set.remove(first_duplicate), for every set of the list
RemoveFirsts(sets) == [m \in 1..Len(sets) |-> sets[m] \ {MinOf(sets[m])}]

\* data.iloc[data_duplicated_index_show] takes the labels as positions
IlocFails(t, positions) == \E x \in Range(positions) : x >= Len(t.index)

---------------------------------------------------------------------------
(* The state machine: a caller hands the same table and arguments to       *)
(* handle_duplicate_values_drop and then to handle_duplicate_values_fuzzy, *)
(* as main() does; the pair loop of the fuzzy function advances one pair   *)
(* per step.                                                               *)

InitDuplicates ==
    /\ data \in Tables
    /\ subset \in SubsetsFor(data)
    /\ range_arg \in Ranges
    /\ pc = "start"
    /\ ratio_range = <<>>
    /\ comparison_columns = <<>>
    /\ data_duplicated_sets = <<>>
    /\ k = 0
    /\ data_duplicated_index_show = <<>>
    /\ data_duplicated_index_drop = <<>>
    /\ data_cleaned_fuzzy = NoTable
    /\ fuzzy_exc = "none"
    /\ data_cleaned_drop = NoTable
    /\ drop_exc = "none"
    /\ pandas_raises \in (IF VersionDependent(data, subset) THEN BOOLEAN ELSE {FALSE})
    /\ returned = <<>>

\* no call of handle_duplicate_values_drop or handle_duplicate_values_fuzzy
IdleDuplicates ==
    /\ data = NoTable
    /\ subset = NoneSubset
    /\ range_arg = <<>>
    /\ pc = "idle"
    /\ ratio_range = <<>>
    /\ comparison_columns = <<>>
    /\ data_duplicated_sets = <<>>
    /\ k = 0
    /\ data_duplicated_index_show = <<>>
    /\ data_duplicated_index_drop = <<>>
    /\ data_cleaned_fuzzy = NoTable
    /\ fuzzy_exc = "none"
    /\ data_cleaned_drop = NoTable
    /\ drop_exc = "none"
    /\ pandas_raises = FALSE
    /\ returned = <<>>

\* handle_duplicate_values_drop(data, subset)
HandleDuplicateValuesDrop ==
    /\ pc = "start"
    /\ \E out \in DropOutcomes(data, subset) :
        /\ VersionDependent(data, subset) => (out[1] # "none" <=> pandas_raises)
        /\ drop_exc' = out[1]
        /\ data_cleaned_drop' = IF out[1] = "none" THEN out[2] ELSE NoTable
    /\ pc' = "drop_returned"
    /\ UNCHANGED <<data, subset, range_arg, ratio_range, comparison_columns,
                   data_duplicated_sets, k, data_duplicated_index_show,
                   data_duplicated_index_drop, data_cleaned_fuzzy, fuzzy_exc,
                   pandas_raises, returned>>
    /\ UNCHANGED outsideDuplicates

\* handle_duplicate_values_fuzzy, up to the start of the pair loop
FuzzyBegin ==
    /\ pc = "drop_returned"
    /\ ratio_range' = ResolveRange(range_arg)
    /\ comparison_columns' = ResolveColumns(data, subset)
    /\ data_duplicated_sets' = EmptyList
    /\ k' = 1
    /\ pc' = "pairs"
    /\ UNCHANGED <<data, subset, range_arg, data_duplicated_index_show,
                   data_duplicated_index_drop, data_cleaned_fuzzy, fuzzy_exc,
                   data_cleaned_drop, drop_exc, pandas_raises, returned>>
    /\ UNCHANGED outsideDuplicates

\* one iteration of "for i, j in combinations(data.index, 2)"
FuzzyPair ==
    /\ pc = "pairs"
    /\ k <= Len(Combinations2(data.index))
    /\ IF PairException(data, comparison_columns) # "none"
       THEN /\ fuzzy_exc' = PairException(data, comparison_columns)
            /\ pc' = "done"
            /\ UNCHANGED <<data_duplicated_sets, k>>
       ELSE /\ data_duplicated_sets' =
                   PairStep(data, comparison_columns, ratio_range,
                            data_duplicated_sets, Combinations2(data.index)[k])
            /\ k' = k + 1
            /\ UNCHANGED <<fuzzy_exc, pc>>
    /\ UNCHANGED <<data, subset, range_arg, ratio_range, comparison_columns,
                   data_duplicated_index_show, data_duplicated_index_drop,
                   data_cleaned_fuzzy, data_cleaned_drop, drop_exc,
                   pandas_raises, returned>>
    /\ UNCHANGED outsideDuplicates

\* handle_duplicate_values_fuzzy after the pair loop: the show and drop
\* lists, the logging line and data.drop
FuzzyFinish ==
    /\ pc = "pairs"
    /\ k > Len(Combinations2(data.index))
    /\ data_duplicated_index_show' = Sorted(UnionAll(data_duplicated_sets))
    /\ data_duplicated_index_drop' = Sorted(UnionAll(RemoveFirsts(data_duplicated_sets)))
    /\ data_duplicated_sets' = RemoveFirsts(data_duplicated_sets)
    /\ IF IlocFails(data, data_duplicated_index_show')
       THEN /\ fuzzy_exc' = "IndexError"
            /\ UNCHANGED data_cleaned_fuzzy
       ELSE /\ data_cleaned_fuzzy' = DropLabels(data, data_duplicated_index_drop')
            /\ UNCHANGED fuzzy_exc
    /\ pc' = "done"
    /\ UNCHANGED <<data, subset, range_arg, ratio_range, comparison_columns, k,
                   data_cleaned_drop, drop_exc, pandas_raises, returned>>
    /\ UNCHANGED outsideDuplicates

\* the arguments of the caller's first call
FirstArgs ==
    IF returned = <<>> THEN <<subset, range_arg>>
    ELSE <<returned[1].subset, returned[1].range_arg>>

\* the arguments a caller gives to a later call: those of its first call, or
\* all columns with the default range or with (50,100)
AgainArgs == {FirstArgs, <<NoneSubset, <<>>>>, <<NoneSubset, <<50, 100>>>>}

\* the caller keeps what the two calls gave and calls both functions on its
\* table again; the locals of the calls that ended are left as they were
CallAgain ==
    /\ pc = "done"
    /\ Len(returned) < MaxCalls - 1
    /\ returned' = Append(returned,
            [data |-> data, subset |-> subset, range_arg |-> range_arg,
             drop_exc |-> drop_exc, data_cleaned_drop |-> data_cleaned_drop,
             fuzzy_exc |-> fuzzy_exc, data_cleaned_fuzzy |-> data_cleaned_fuzzy])
    /\ \E args \in AgainArgs : subset' = args[1] /\ range_arg' = args[2]
    /\ pc' = "start"
    /\ data_cleaned_drop' = NoTable
    /\ drop_exc' = "none"
    /\ data_cleaned_fuzzy' = NoTable
    /\ fuzzy_exc' = "none"
    /\ UNCHANGED <<data, ratio_range, comparison_columns, data_duplicated_sets, k,
                   data_duplicated_index_show, data_duplicated_index_drop,
                   pandas_raises>>
    /\ UNCHANGED outsideDuplicates

\* the caller applies the two functions to the table the fuzzy function
\* returned, with the subset and the range of the call that returned it
ApplyAgain ==
    /\ pc = "done"
    /\ fuzzy_exc = "none"
    /\ Len(returned) < MaxCalls - 1
    /\ returned' = Append(returned,
            [data |-> data, subset |-> subset, range_arg |-> range_arg,
             drop_exc |-> drop_exc, data_cleaned_drop |-> data_cleaned_drop,
             fuzzy_exc |-> fuzzy_exc, data_cleaned_fuzzy |-> data_cleaned_fuzzy])
    /\ data' = data_cleaned_fuzzy
    /\ pc' = "start"
    /\ data_cleaned_drop' = NoTable
    /\ drop_exc' = "none"
    /\ data_cleaned_fuzzy' = NoTable
    /\ UNCHANGED <<subset, range_arg, ratio_range, comparison_columns,
                   data_duplicated_sets, k, data_duplicated_index_show,
                   data_duplicated_index_drop, fuzzy_exc, pandas_raises>>
    /\ UNCHANGED outsideDuplicates

---------------------------------------------------------------------------
(* Typed tables of convert_datatype.py, scale_feature.py,                  *)
(* encode_categorical.py and handle_outliers.py: a frame is a record       *)
(* [columns, index, dtype, cells], with the column names as sequences of   *)
(* characters, the dtype of each column and the cells of each column.      *)
(* Cells: [s |-> chars] a str, [n |-> v] an int, [f |-> <<num, den>>] a    *)
(* float, [d |-> <<year, month, day>>] a datetime, [epoch |-> <<y, m, d>>] *)
(* the int that numbers the nanoseconds from 1970 to that day.             *)

FloatCell(num, den) == [f |-> <<num, den>>]

DateCell(y, m, d) == [d |-> <<y, m, d>>]

EpochCell(date) == [epoch |-> date]

\* the position of column c in the list columns
ColumnPos(columns, c) == CHOOSE p \in 1..Len(columns) : columns[p] = c

\* pd.DataFrame({columns[1]: values[1], ...}) with the given dtypes
Frame(columns, dtypes, values) ==
    [columns |-> columns,
     index |-> IF Len(values) = 0 THEN <<>> ELSE [p \in 1..Len(values[1]) |-> p - 1],
     dtype |-> [c \in Range(columns) |-> dtypes[ColumnPos(columns, c)]],
     cells |-> [c \in Range(columns) |-> values[ColumnPos(columns, c)]]]

\* data[col] = values, for a column the frame has
SetColumn(t, col, dt, values) ==
    [t EXCEPT !.dtype[col] = dt, !.cells[col] = values]

\* pd.api.types.is_numeric_dtype
IsNumericDtype(dt) == dt \in {"int64", "float64"}

---------------------------------------------------------------------------
(* convert_datatype_ud *)

IntName == <<"i", "n", "t">>

FloatName == <<"f", "l", "o", "a", "t">>

DatetimeName == <<"d", "a", "t", "e", "t", "i", "m", "e">>

IsDigitChar(c) == c \in {"0", "1", "2", "3", "4", "5", "6", "7", "8", "9"}

DigitValue(c) == CHOOSE v \in 0..9 : Digit(v) = c

\* the number a string of digits writes
RECURSIVE DigitsValue(_)
DigitsValue(chars) ==
    IF chars = <<>> THEN 0
    ELSE 10 * DigitsValue(SubSeq(chars, 1, Len(chars) - 1)) + DigitValue(chars[Len(chars)])

AllDigits(chars) == \A p \in 1..Len(chars) : IsDigitChar(chars[p])

\* int(x) accepts the string: digits, with whitespace around them
IsIntLiteral(chars) == Strip(chars) # <<>> /\ AllDigits(Strip(chars))

\* int(x)
ParseInt(chars) == DigitsValue(Strip(chars))

\* the positions of "." in chars
DotPositions(chars) == {p \in 1..Len(chars) : chars[p] = "."}

\* float(x) accepts the string: digits with at most one ".", one digit at least
IsFloatLiteral(chars) ==
    LET t == Strip(chars) IN
    /\ Cardinality(DotPositions(t)) <= 1
    /\ \A p \in 1..Len(t) : IsDigitChar(t[p]) \/ t[p] = "."
    /\ \E p \in 1..Len(t) : IsDigitChar(t[p])

RECURSIVE Pow10(_)
Pow10(e) == IF e = 0 THEN 1 ELSE 10 * Pow10(e - 1)

\* float(x) as <<numerator, denominator>>
ParseFloat(chars) ==
    LET t == Strip(chars) IN
    IF DotPositions(t) = {} THEN <<DigitsValue(t), 1>>
    ELSE LET dot == CHOOSE p \in DotPositions(t) : TRUE
             whole == SubSeq(t, 1, dot - 1)
             frac == SubSeq(t, dot + 1, Len(t))
         IN <<DigitsValue(whole \o frac), Pow10(Len(frac))>>

IsLeap(y) == (y % 4 = 0 /\ y % 100 # 0) \/ y % 400 = 0

DaysIn(y, m) ==
    IF m = 2 THEN (IF IsLeap(y) THEN 29 ELSE 28)
    ELSE IF m \in {4, 6, 9, 11} THEN 30 ELSE 31

\* the ways the directive %c reads a field at the head of chars:
\* <<value, number of characters>>
FieldParses(c, chars) ==
    LET reads(lens, lo, hi) ==
            {<<DigitsValue(SubSeq(chars, 1, n)), n>> : n \in
                {n \in lens : /\ n <= Len(chars)
                              /\ AllDigits(SubSeq(chars, 1, n))
                              /\ DigitsValue(SubSeq(chars, 1, n)) \in lo..hi}}
    IN
    IF c = "m" THEN reads({1, 2}, 1, 12)
    ELSE IF c = "d" THEN reads({1, 2}, 1, 31)
    ELSE IF c = "Y" THEN reads({4}, 0, 9999)
    ELSE {}

\* the dates chars can be read as under the format fmt, starting from acc;
\* a directive other than %m, %d, %Y is a bad directive and reads nothing
RECURSIVE Strptime(_, _, _)
Strptime(fmt, chars, acc) ==
    IF fmt = <<>> THEN (IF chars = <<>> THEN {acc} ELSE {})
    ELSE IF Head(fmt) = "%" THEN
        IF Len(fmt) < 2 THEN {}
        ELSE UNION { Strptime(SubSeq(fmt, 3, Len(fmt)),
                              SubSeq(chars, r[2] + 1, Len(chars)),
                              [acc EXCEPT ![fmt[2]] = r[1]])
                     : r \in FieldParses(fmt[2], chars) }
    ELSE IF chars # <<>> /\ Head(chars) = Head(fmt)
         THEN Strptime(Tail(fmt), Tail(chars), acc)
    ELSE {}

\* the dates pd.to_datetime(x, format=fmt) can give for the string x
ToDatetime(fmt, chars) ==
    {r \in Strptime(fmt, chars, [Y |-> 1900, m |-> 1, d |-> 1]) :
        r.d <= DaysIn(r.Y, r.m)}

\* float to int: towards zero
Truncate(fr) == fr[1] \div fr[2]

\* [item.strip() for item in convert_scenario[key]]
StripItems(items) == [m \in 1..Len(items) |-> Strip(items[m])]

\* all(col in data.columns for col in convert_scenario["column"])
ColumnsValid(t, sc) == \A m \in 1..Len(sc.column) : sc.column[m] \in Range(t.columns)

\* all(dt in ["float", "int", "datetime"] for dt in convert_scenario["datatype"])
DatatypesValid(sc) ==
    \A m \in 1..Len(sc.datatype) : sc.datatype[m] \in {FloatName, IntName, DatetimeName}

Min(a, b) == IF a <= b THEN a ELSE b

\* list(zip(a, b, c)): as long as the shortest of the three
Zip3(a, b, c) ==
    [m \in 1..Min(Len(a), Min(Len(b), Len(c))) |-> <<a[m], b[m], c[m]>>]

\* any(ft != "" and dt != "datetime" for _, dt, ft in convert_scenario_zipped)
FormatGivenForOther(zipped) ==
    \E m \in 1..Len(zipped) : zipped[m][3] # <<>> /\ zipped[m][2] # DatetimeName

\* any(ft == "" and dt == "datetime" for _, dt, ft in convert_scenario_zipped)
FormatMissing(zipped) ==
    \E m \in 1..Len(zipped) : zipped[m][3] = <<>> /\ zipped[m][2] = DatetimeName

\* Faulty variant of ValidationError: the two format checks are left out.
ValidationErrorNoFormat(t, sc) ==
    IF ~ColumnsValid(t, sc) THEN "column"
    ELSE IF ~DatatypesValid(sc) THEN "datatype"
    ELSE "none"

\* the error the four checks of convert_datatype_ud log for the stripped
\* scenario sc, "none" when all pass
ValidationError(t, sc) ==
    IF ~ColumnsValid(t, sc) THEN "column"
    ELSE IF ~DatatypesValid(sc) THEN "datatype"
    ELSE IF FormatGivenForOther(Zip3(sc.column, sc.datatype, sc.format)) THEN "format_given"
    ELSE IF FormatMissing(Zip3(sc.column, sc.datatype, sc.format)) THEN "format_missing"
    ELSE "none"

\* data[col].astype("int"), when the column is not of an integer dtype
AsTypeInt(t, col) ==
    LET cells == t.cells[col]
        n == Len(cells)
    IN
    IF t.dtype[col] = "object" THEN
        IF \A p \in 1..n : IsIntLiteral(cells[p].s)
        THEN {<<"none", SetColumn(t, col, "int64",
                        [p \in 1..n |-> IntCell(ParseInt(cells[p].s))])>>}
        ELSE {<<"ValueError", t>>}
    ELSE IF t.dtype[col] = "float64" THEN
        {<<"none", SetColumn(t, col, "int64",
                        [p \in 1..n |-> IntCell(Truncate(cells[p].f))])>>}
    ELSE \* datetime64: allowed where "int" is int64, a TypeError where it is int32
        {<<"none", SetColumn(t, col, "int64", [p \in 1..n |-> EpochCell(cells[p].d)])>>,
         <<"TypeError", t>>}

\* data[col].astype("float"), when the column is not of a float dtype
AsTypeFloat(t, col) ==
    LET cells == t.cells[col]
        n == Len(cells)
    IN
    IF t.dtype[col] = "object" THEN
        IF \A p \in 1..n : IsFloatLiteral(cells[p].s)
        THEN {<<"none", SetColumn(t, col, "float64",
                        [p \in 1..n |-> FloatCell(ParseFloat(cells[p].s)[1],
                                                  ParseFloat(cells[p].s)[2])])>>}
        ELSE {<<"ValueError", t>>}
    ELSE IF t.dtype[col] = "int64" THEN
        {<<"none", SetColumn(t, col, "float64",
                        [p \in 1..n |-> IF "n" \in DOMAIN cells[p]
                                        THEN FloatCell(cells[p].n, 1)
                                        ELSE [f_epoch |-> cells[p].epoch]])>>}
    ELSE {<<"TypeError", t>>}

\* pd.to_datetime(data[col], format=ft), for a column of strings
ToDatetimeColumn(t, col, ft) ==
    LET cells == t.cells[col]
        n == Len(cells)
    IN
    IF \A p \in 1..n : ToDatetime(ft, cells[p].s) # {}
    THEN {<<"none", SetColumn(t, col, "datetime64",
                    [p \in 1..n |->
                        LET r == CHOOSE r \in ToDatetime(ft, cells[p].s) : TRUE
                        IN DateCell(r.Y, r.m, r.d)])>>}
    ELSE {<<"ValueError", t>>}

\* the outcomes of one iteration of the conversion loop: <<exception, table>>
ConvertOutcomes(t, col, dt, ft) ==
    IF dt = IntName THEN
        (IF t.dtype[col] = "int64" THEN {<<"none", t>>} ELSE AsTypeInt(t, col))
    ELSE IF dt = FloatName THEN
        (IF t.dtype[col] = "float64" THEN {<<"none", t>>} ELSE AsTypeFloat(t, col))
    ELSE IF dt = DatetimeName THEN
        (IF t.dtype[col] = "datetime64" \/ IsNumericDtype(t.dtype[col])
         THEN {<<"none", t>>}
         ELSE ToDatetimeColumn(t, col, ft))
    ELSE {<<"none", t>>}

---------------------------------------------------------------------------
(* Inputs of convert_datatype_ud *)

\* Largest length of each list of a scenario.
MaxScenarioLen == 2

HighSchoolPercentage == <<"H", "i", "g", "h", " ", "S", "c", "h", "o", "o", "l", " ", "P", "e", "r", "c", "e", "n", "t", "a", "g", "e">>

TestDate == <<"T", "e", "s", "t", " ", "D", "a", "t", "e">>

\* the table of test_convert_datatype_ud_success
ud_success_df ==
    Frame(<<HighSchoolPercentage, TestDate>>, <<"object", "object">>,
          << <<StrCell(<<"8", "0">>), StrCell(<<"9", "0">>)>>,
             <<StrCell(<<"0", "4", "/", "1", "0", "/", "2", "0", "2", "4">>),
               StrCell(<<"0", "4", "/", "1", "2", "/", "2", "0", "2", "4">>)>> >>)

\* a table with a column of decimal strings, an int column and a float column
mixed_df ==
    Frame(<<<<"S", "c", "o", "r", "e">>, <<"A", "g", "e">>, <<"R", "a", "t", "e">>>>, <<"object", "int64", "float64">>,
          << <<StrCell(<<"8", "9", ".", "5">>), StrCell(<<"9", "2", ".", "3">>)>>,
             <<IntCell(25), IntCell(30)>>,
             <<FloatCell(3, 2), FloatCell(5, 2)>> >>)

ConvertFrames == {ud_success_df, mixed_df}

Zip == <<"Z", "i", "p">>

\* the column entries of the scenarios tried on t: its columns, the second
\* with whitespace around it, and a column it does not have
ColumnItems(t) ==
    {IF p = 2 THEN <<" ">> \o t.columns[p] \o <<" ">> ELSE t.columns[p]
        : p \in 1..Len(t.columns)} \cup {Zip}

DatatypeItems == {IntName, <<" ">> \o FloatName \o <<" ">>, DatetimeName, <<"s", "t", "r">>}

FormatItems == {<<>>, <<"%", "m", "/", "%", "d", "/", "%", "Y">>}

\* the lists of 0 to MaxScenarioLen items
ListsOf(items) == UNION {[1..n -> items] : n \in 0..MaxScenarioLen}

Scenarios(t) ==
    [column : ListsOf(ColumnItems(t)), datatype : ListsOf(DatatypeItems),
     format : ListsOf(FormatItems)]

NoFrame == Frame(<<>>, <<>>, <<>>)

NoScenario == [column |-> <<>>, datatype |-> <<>>, format |-> <<>>]

---------------------------------------------------------------------------
(* The state machine of convert_datatype_ud: the checks, then one          *)
(* conversion per step.                                                    *)

InitConvert ==
    /\ ud_data \in ConvertFrames
    /\ ud_original = ud_data
    /\ convert_scenario \in Scenarios(ud_data)
    /\ convert_scenario_zipped = <<>>
    /\ ud_k = 0
    /\ ud_pc = "start"
    /\ ud_error = "none"

\* no call of convert_datatype_ud
IdleConvert ==
    /\ ud_data = NoFrame
    /\ ud_original = NoFrame
    /\ convert_scenario = NoScenario
    /\ convert_scenario_zipped = <<>>
    /\ ud_k = 0
    /\ ud_pc = "idle"
    /\ ud_error = "none"

\* convert_datatype_ud up to the conversion loop: the items are stripped in
\* the caller's dict, then the four checks
ConvertBegin ==
    /\ ud_pc = "start"
    /\ LET sc == [column |-> StripItems(convert_scenario.column),
                  datatype |-> StripItems(convert_scenario.datatype),
                  format |-> StripItems(convert_scenario.format)]
       IN
       /\ convert_scenario' = sc
       /\ ud_error' = ValidationError(ud_data, sc)
       /\ IF ValidationError(ud_data, sc) # "none"
          THEN /\ ud_pc' = "returned"
               /\ UNCHANGED <<convert_scenario_zipped, ud_k>>
          ELSE /\ convert_scenario_zipped' = Zip3(sc.column, sc.datatype, sc.format)
               /\ ud_k' = 1
               /\ ud_pc' = "loop"
    /\ UNCHANGED <<ud_original, ud_data>>
    /\ UNCHANGED outsideConvert

\* Faulty variant of ConvertColumn: a conversion that raises puts the
\* columns converted before it back.
ConvertColumnRollback ==
    /\ ud_pc = "loop"
    /\ ud_k <= Len(convert_scenario_zipped)
    /\ \E out \in ConvertOutcomes(ud_data, convert_scenario_zipped[ud_k][1],
                                  convert_scenario_zipped[ud_k][2],
                                  convert_scenario_zipped[ud_k][3]) :
          IF out[1] # "none"
          THEN /\ ud_error' = out[1]
               /\ ud_pc' = "returned"
               /\ ud_data' = ud_original
               /\ UNCHANGED ud_k
          ELSE /\ ud_data' = out[2]
               /\ ud_k' = ud_k + 1
               /\ UNCHANGED <<ud_error, ud_pc>>
    /\ UNCHANGED <<ud_original, convert_scenario, convert_scenario_zipped>>
    /\ UNCHANGED outsideConvert

\* one iteration of "for col, dt, ft in convert_scenario_zipped"
ConvertColumn ==
    /\ ud_pc = "loop"
    /\ ud_k <= Len(convert_scenario_zipped)
    /\ \E out \in ConvertOutcomes(ud_data, convert_scenario_zipped[ud_k][1],
                                  convert_scenario_zipped[ud_k][2],
                                  convert_scenario_zipped[ud_k][3]) :
          IF out[1] # "none"
          THEN /\ ud_error' = out[1]
               /\ ud_pc' = "returned"
               /\ UNCHANGED <<ud_data, ud_k>>
          ELSE /\ ud_data' = out[2]
               /\ ud_k' = ud_k + 1
               /\ UNCHANGED <<ud_error, ud_pc>>
    /\ UNCHANGED <<ud_original, convert_scenario, convert_scenario_zipped>>
    /\ UNCHANGED outsideConvert

\* the end of the loop: return data
ConvertReturn ==
    /\ ud_pc = "loop"
    /\ ud_k > Len(convert_scenario_zipped)
    /\ ud_pc' = "returned"
    /\ UNCHANGED <<ud_original, ud_data, convert_scenario, convert_scenario_zipped,
                   ud_k, ud_error>>
    /\ UNCHANGED outsideConvert

---------------------------------------------------------------------------
(* Exact arithmetic for the numeric columns: a fraction is <<num, den>>    *)
(* with den > 0, in lowest terms.  The code computes in binary floating    *)
(* point.  A value x * sqrt(r), x and r fractions, is the cell             *)
(* [coef |-> x, rad |-> r].                                                *)

Abs(a) == IF a < 0 THEN -a ELSE a

RECURSIVE Gcd(_, _)
Gcd(a, b) == IF b = 0 THEN a ELSE Gcd(b, a % b)

FracNorm(x) ==
    LET g == Gcd(Abs(x[1]), Abs(x[2]))
        sg == IF x[2] < 0 THEN -1 ELSE 1
    IN IF g = 0 THEN <<0, 1>> ELSE <<sg * (x[1] \div g), sg * (x[2] \div g)>>

\* x + y over the least common denominator
FracPlus(x, y) ==
    LET g == Gcd(x[2], y[2])
    IN FracNorm(<<x[1] * (y[2] \div g) + y[1] * (x[2] \div g), (x[2] \div g) * y[2]>>)

FracMinus(x, y) == FracPlus(x, <<-y[1], y[2]>>)

\* x * y, the common factors taken out before the products are made
FracTimes(x, y) ==
    LET g == Max(1, Gcd(Abs(x[1]), Abs(y[2])))
        h == Max(1, Gcd(Abs(y[1]), Abs(x[2])))
    IN FracNorm(<<(x[1] \div g) * (y[1] \div h), (x[2] \div h) * (y[2] \div g)>>)

\* x / y, y not zero
FracOver(x, y) == FracTimes(x, <<y[2], y[1]>>)

FracLess(x, y) == x[1] * y[2] < y[1] * x[2]

FracLeq(x, y) == x[1] * y[2] <= y[1] * x[2]

IsZero(x) == x[1] = 0

\* the sum of xs[lo], ..., xs[hi], by halves
RECURSIVE FracTotalOf(_, _, _)
FracTotalOf(xs, lo, hi) ==
    IF lo > hi THEN <<0, 1>>
    ELSE IF lo = hi THEN xs[lo]
    ELSE FracPlus(FracTotalOf(xs, lo, (lo + hi) \div 2),
                  FracTotalOf(xs, (lo + hi) \div 2 + 1, hi))

FracTotal(xs) == FracTotalOf(xs, 1, Len(xs))

\* the number of elements of xs that sort before xs[p], equal ones in the
\* order of their positions
RankIn(xs, p) ==
    Cardinality({q \in 1..Len(xs) :
                    FracLess(xs[q], xs[p]) \/ (~FracLess(xs[p], xs[q]) /\ q < p)})

\* xs in ascending order
SortFracs(xs) ==
    [r \in 1..Len(xs) |-> xs[CHOOSE p \in 1..Len(xs) : RankIn(xs, p) = r - 1]]

\* the q-quantile of xs (q a fraction in [0, 1], xs not empty), by linear
\* interpolation between the two nearest order statistics
Quantile(xs, q) ==
    LET sorted == SortFracs(xs)
        h == FracTimes(<<Len(xs) - 1, 1>>, q)
        lo == h[1] \div h[2]
        part == FracMinus(h, <<lo, 1>>)
    IN IF lo + 1 >= Len(xs) THEN sorted[Len(xs)]
       ELSE FracPlus(sorted[lo + 1],
                     FracTimes(part, FracMinus(sorted[lo + 2], sorted[lo + 1])))

FracMin(xs) == SortFracs(xs)[1]

FracMax(xs) == SortFracs(xs)[Len(xs)]

Mean(xs) == FracOver(FracTotal(xs), <<Len(xs), 1>>)

\* the mean of the squared deviations from the mean (ddof = 0)
Variance(xs) ==
    LET mean == Mean(xs)
    IN Mean([p \in 1..Len(xs) |->
                FracTimes(FracMinus(xs[p], mean), FracMinus(xs[p], mean))])

RootCell(x, r) == [coef |-> x, rad |-> r]

\* the fraction x of the value x * sqrt(r) of a numeric cell
CoefOf(cell) ==
    IF "n" \in DOMAIN cell THEN <<cell.n, 1>>
    ELSE IF "f" \in DOMAIN cell THEN cell.f
    ELSE cell.coef

\* the fraction r of the value x * sqrt(r) of a numeric cell
RadOf(cell) == IF "rad" \in DOMAIN cell THEN cell.rad ELSE <<1, 1>>

\* the float cell of the value x * sqrt(r)
NumCell(x, r) == IF r = <<1, 1>> \/ IsZero(x) THEN FloatCell(x[1], x[2]) ELSE RootCell(x, r)

\* the square of the value of a numeric cell
SquareOf(cell) == FracTimes(FracTimes(CoefOf(cell), CoefOf(cell)), RadOf(cell))

---------------------------------------------------------------------------
(* get_observing_columns, as scale_feature.py and handle_outliers.py       *)
(* define it (numeric columns) and as encode_categorical.py defines it     *)
(* (the other columns)                                                     *)

\* data.select_dtypes(include="number").columns when numeric holds,
\* data.select_dtypes(exclude="number").columns otherwise
KindColumns(t, numeric) ==
    SelectSeq(t.columns, LAMBDA c : IsNumericDtype(t.dtype[c]) = numeric)

\* Faulty variant of GetObservingColumns: names that are not valid are left out.
GetObservingColumnsLenient(numeric, t, sub) ==
    IF Truthy(sub)
    THEN SelectSeq(StripItems(sub.cols), LAMBDA c : c \in Range(KindColumns(t, numeric)))
    ELSE KindColumns(t, numeric)

\* get_observing_columns(data, columns_subset)
GetObservingColumns(numeric, t, sub) ==
    IF Truthy(sub) /\ \E m \in 1..Len(sub.cols) :
                          Strip(sub.cols[m]) \notin Range(KindColumns(t, numeric))
    THEN <<>>
    ELSE IF Truthy(sub) THEN StripItems(sub.cols)
    ELSE KindColumns(t, numeric)

---------------------------------------------------------------------------
(* scale_feature *)

MINMAX_SCALING == <<"M", "I", "N", "M", "A", "X", "_", "S", "C", "A", "L", "I", "N", "G">>

ZSCORE_STANDARDIZATION == <<"Z", "S", "C", "O", "R", "E", "_", "S", "T", "A", "N", "D", "A", "R", "D", "I", "Z", "A", "T", "I", "O", "N">>

ROBUST_SCALING == <<"R", "O", "B", "U", "S", "T", "_", "S", "C", "A", "L", "I", "N", "G">>

\* [c.name for c in list(ScalingMethod)]
ScalingMethodNames == {MINMAX_SCALING, ZSCORE_STANDARDIZATION, ROBUST_SCALING}

Coefs(cells) == [p \in 1..Len(cells) |-> CoefOf(cells[p])]

\* MinMaxScaler().fit_transform: (x - min) / (max - min), a zero range
\* counted as 1
MinMaxScale(cells) ==
    LET xs == Coefs(cells)
        range == FracMinus(FracMax(xs), FracMin(xs))
    IN [p \in 1..Len(cells) |->
           IF IsZero(range) THEN FloatCell(0, 1)
           ELSE NumCell(FracOver(FracMinus(xs[p], FracMin(xs)), range), <<1, 1>>)]

\* StandardScaler().fit_transform: (x - mean) / std, std with ddof = 0, a
\* zero std counted as 1
ZScoreScale(cells) ==
    LET xs == Coefs(cells)
        var == Variance(xs)
    IN [p \in 1..Len(cells) |->
           IF IsZero(var) THEN FloatCell(0, 1)
           ELSE NumCell(FracMinus(xs[p], Mean(xs)), FracOver(<<1, 1>>, var))]

\* RobustScaler().fit_transform: (x - median) / (q75 - q25), a zero
\* interquartile range counted as 1
RobustScale(cells) ==
    LET xs == Coefs(cells)
        median == Quantile(xs, <<1, 2>>)
        iqr == FracMinus(Quantile(xs, <<3, 4>>), Quantile(xs, <<1, 4>>))
    IN [p \in 1..Len(cells) |->
           IF IsZero(iqr) THEN NumCell(FracMinus(xs[p], median), RadOf(cells[1]))
           ELSE NumCell(FracOver(FracMinus(xs[p], median), iqr), <<1, 1>>)]

\* the match statement of the scaling loop
ScaleColumnCells(cells, scaling_method) ==
    IF Len(cells) = 0 THEN cells
    ELSE IF scaling_method = MINMAX_SCALING THEN MinMaxScale(cells)
    ELSE IF scaling_method = ZSCORE_STANDARDIZATION THEN ZScoreScale(cells)
    ELSE IF scaling_method = ROBUST_SCALING THEN RobustScale(cells)
    ELSE cells

\* the sum of the squares of the numeric cells of row p
RECURSIVE RowSquares(_, _, _)
RowSquares(t, cols, p) ==
    IF cols = <<>> THEN <<0, 1>>
    ELSE FracPlus(SquareOf(t.cells[Head(cols)][p]), RowSquares(t, Tail(cols), p))

\* Normalizer().fit_transform on the numeric columns, written back column
\* by column: every row divided by its Euclidean norm, a zero norm counted as 1
L2Normalize(t) ==
    LET cols == KindColumns(t, TRUE) IN
    [t EXCEPT
        !.dtype = [c \in DOMAIN t.dtype |->
                      IF c \in Range(cols) THEN "float64" ELSE t.dtype[c]],
        !.cells = [c \in DOMAIN t.cells |->
                      IF c \notin Range(cols) THEN t.cells[c]
                      ELSE [p \in 1..Len(t.cells[c]) |->
                              LET cell == t.cells[c][p]
                                  norm2 == RowSquares(t, cols, p)
                              IN IF IsZero(norm2) THEN FloatCell(0, 1)
                                 ELSE NumCell(CoefOf(cell), FracOver(RadOf(cell), norm2))]]]

\* list(zip(observing_columns, scale_scenario["scaling_method"]))
Zip2(a, b) == [m \in 1..Min(Len(a), Len(b)) |-> <<a[m], b[m]>>]

\* Faulty variant of ScaleValidationError: the method names are not checked.
ScaleValidationErrorNoMethod(t, sc) ==
    IF Len(sc.column) # Len(sc.scaling_method) THEN "length"
    ELSE IF Len(GetObservingColumns(TRUE, t, ListSubset(sc.column))) = 0 THEN "columns"
    ELSE "none"

\* the check of scale_feature that fails for the scenario sc, "none" when
\* all three pass
ScaleValidationError(t, sc) ==
    IF Len(sc.column) # Len(sc.scaling_method) THEN "length"
    ELSE IF Len(GetObservingColumns(TRUE, t, ListSubset(sc.column))) = 0 THEN "columns"
    ELSE IF \E m \in 1..Len(sc.scaling_method) :
                Strip(sc.scaling_method[m]) \notin ScalingMethodNames
         THEN "method"
    ELSE "none"

---------------------------------------------------------------------------
(* Inputs of scale_feature *)

\* Largest length of each list of a scale scenario.
MaxScaleLen == 2

Age == <<"A", "g", "e">>

CityName == <<"C", "i", "t", "y">>

\* the fixture sample_df of tests/test_scale_feature.py
sample_df ==
    Frame(<<Age, HighSchoolPercentage, CityName>>, <<"int64", "int64", "object">>,
          << <<IntCell(18), IntCell(25), IntCell(40), IntCell(60)>>,
             <<IntCell(70), IntCell(80), IntCell(90), IntCell(85)>>,
             <<StrCell(<<"B", "e", "r", "l", "i", "n">>), StrCell(<<"P", "a", "r", "i", "s">>), StrCell(<<"M", "a", "d", "r", "i", "d">>), StrCell(<<"R", "o", "m", "e">>)>> >>)

\* a table whose first numeric column is constant, with a float column
flat_df ==
    Frame(<<Age, HighSchoolPercentage>>, <<"int64", "float64">>,
          << <<IntCell(0), IntCell(0), IntCell(0)>>,
             <<FloatCell(0, 1), FloatCell(3, 2), FloatCell(2, 1)>> >>)

ScaleFrames == {sample_df, flat_df}

InvalidColumn == <<"I", "n", "v", "a", "l", "i", "d", "C", "o", "l", "u", "m", "n">>

\* the column entries of the scale scenarios
ScaleColumnItems == {<<" ", " ">> \o Age \o <<" ", " ">>, HighSchoolPercentage, CityName, InvalidColumn}

\* the method entries of the scale scenarios
ScaleMethodItems ==
    {MINMAX_SCALING, <<" ">> \o ZSCORE_STANDARDIZATION, ROBUST_SCALING, <<"I", "N", "V", "A", "L", "I", "D", "_", "M", "E", "T", "H", "O", "D">>}

ScaleListsOf(items) == UNION {[1..n -> items] : n \in 0..MaxScaleLen}

ScaleScenarios ==
    [column : ScaleListsOf(ScaleColumnItems), scaling_method : ScaleListsOf(ScaleMethodItems)]

NoScaleScenario == [column |-> <<>>, scaling_method |-> <<>>]

---------------------------------------------------------------------------
(* The state machine of scale_feature: the checks, one column scaled per   *)
(* step, then the normalization.                                           *)

InitScale ==
    /\ sf_data \in ScaleFrames
    /\ sf_original = sf_data
    /\ scale_scenario \in ScaleScenarios
    /\ apply_l2normalization \in BOOLEAN
    /\ sf_observing_columns = <<>>
    /\ scale_scenario_zipped = <<>>
    /\ sf_k = 0
    /\ sf_pc = "start"
    /\ sf_error = "none"

\* no call of scale_feature
IdleScale ==
    /\ sf_data = NoFrame
    /\ sf_original = NoFrame
    /\ scale_scenario = NoScaleScenario
    /\ apply_l2normalization = FALSE
    /\ sf_observing_columns = <<>>
    /\ scale_scenario_zipped = <<>>
    /\ sf_k = 0
    /\ sf_pc = "idle"
    /\ sf_error = "none"

\* scale_feature up to the scaling loop: the three checks; the method names
\* are stripped in the caller's dict once the first two have passed
ScaleBegin ==
    /\ sf_pc = "start"
    /\ sf_error' = ScaleValidationError(sf_data, scale_scenario)
    /\ IF ScaleValidationError(sf_data, scale_scenario) = "length"
       THEN UNCHANGED <<sf_observing_columns, scale_scenario>>
       ELSE /\ sf_observing_columns' =
                   GetObservingColumns(TRUE, sf_data, ListSubset(scale_scenario.column))
            /\ IF ScaleValidationError(sf_data, scale_scenario) = "columns"
               THEN UNCHANGED scale_scenario
               ELSE scale_scenario' =
                       [scale_scenario EXCEPT
                            !.scaling_method = StripItems(scale_scenario.scaling_method)]
    /\ IF ScaleValidationError(sf_data, scale_scenario) # "none"
       THEN /\ sf_pc' = "returned"
            /\ UNCHANGED <<scale_scenario_zipped, sf_k>>
       ELSE /\ scale_scenario_zipped' =
                   Zip2(sf_observing_columns', scale_scenario'.scaling_method)
            /\ sf_k' = 1
            /\ sf_pc' = "loop"
    /\ UNCHANGED <<sf_original, sf_data, apply_l2normalization>>
    /\ UNCHANGED outsideScale

\* one iteration of "for column, scaling_method in scale_scenario_zipped"
ScaleColumn ==
    /\ sf_pc = "loop"
    /\ sf_k <= Len(scale_scenario_zipped)
    /\ LET column == scale_scenario_zipped[sf_k][1]
           scaling_method == scale_scenario_zipped[sf_k][2]
       IN sf_data' = SetColumn(sf_data, column, "float64",
                               ScaleColumnCells(sf_data.cells[column], scaling_method))
    /\ sf_k' = sf_k + 1
    /\ UNCHANGED <<sf_original, scale_scenario, apply_l2normalization,
                   sf_observing_columns, scale_scenario_zipped, sf_pc, sf_error>>
    /\ UNCHANGED outsideScale

\* after the loop: the normalization when it is asked for, and return data
ScaleFinish ==
    /\ sf_pc = "loop"
    /\ sf_k > Len(scale_scenario_zipped)
    /\ sf_data' = IF apply_l2normalization THEN L2Normalize(sf_data) ELSE sf_data
    /\ sf_pc' = "returned"
    /\ UNCHANGED <<sf_original, scale_scenario, apply_l2normalization,
                   sf_observing_columns, scale_scenario_zipped, sf_k, sf_error>>
    /\ UNCHANGED outsideScale

---------------------------------------------------------------------------
(* Calls of get_observing_columns *)

\* Largest length of a columns_subset list.
MaxSubsetLen == 2

\* the fixture sample_data of tests/test_encode_categorical.py
encode_sample_data ==
    Frame(<<<<"C", "o", "l", "o", "r">>, <<"S", "h", "a", "p", "e">>, <<"S", "i", "z", "e">>>>, <<"object", "object", "int64">>,
          << <<StrCell(<<"R", "e", "d">>), StrCell(<<"B", "l", "u", "e">>), StrCell(<<"G", "r", "e", "e", "n">>), StrCell(<<"R", "e", "d">>), StrCell(<<"B", "l", "u", "e">>)>>,
             <<StrCell(<<"C", "i", "r", "c", "l", "e">>), StrCell(<<"S", "q", "u", "a", "r", "e">>), StrCell(<<"T", "r", "i", "a", "n", "g", "l", "e">>), StrCell(<<"C", "i", "r", "c", "l", "e">>), StrCell(<<"S", "q", "u", "a", "r", "e">>)>>,
             <<IntCell(1), IntCell(2), IntCell(3), IntCell(2), IntCell(1)>> >>)

ColumnsFrames == {sample_df, flat_df, encode_sample_data, ud_success_df}

\* the entries of the subsets tried on t: its columns, the first with
\* whitespace around it, and a column it does not have
SubsetItems(t) ==
    {IF p = 1 THEN <<" ", " ">> \o t.columns[p] \o <<" ", " ">> ELSE t.columns[p]
        : p \in 1..Len(t.columns)} \cup {InvalidColumn}

\* None, [] and the lists of 1 to MaxSubsetLen items
ColumnSubsets(t) ==
    {NoneSubset}
    \cup {ListSubset(cols) : cols \in UNION {[1..n -> SubsetItems(t)] : n \in 0..MaxSubsetLen}}

InitColumns ==
    /\ oc_data \in ColumnsFrames
    /\ columns_subset \in ColumnSubsets(oc_data)
    /\ observing_columns = <<>>
    /\ oc_pc = "start"

\* no call of get_observing_columns
IdleColumns ==
    /\ oc_data = NoFrame
    /\ columns_subset = NoneSubset
    /\ observing_columns = <<>>
    /\ oc_pc = "idle"

\* get_observing_columns of scale_feature.py and handle_outliers.py
GetObservingColumnsNumeric ==
    /\ oc_pc = "start"
    /\ observing_columns' = GetObservingColumns(TRUE, oc_data, columns_subset)
    /\ oc_pc' = "numeric"
    /\ UNCHANGED <<oc_data, columns_subset>>
    /\ UNCHANGED outsideColumns

\* get_observing_columns of encode_categorical.py
GetObservingColumnsCategorical ==
    /\ oc_pc = "start"
    /\ observing_columns' = GetObservingColumns(FALSE, oc_data, columns_subset)
    /\ oc_pc' = "categorical"
    /\ UNCHANGED <<oc_data, columns_subset>>
    /\ UNCHANGED outsideColumns

---------------------------------------------------------------------------
(* detect_outliers and handle_outliers of handle_outliers.py *)

\* Largest number of rows one fit_predict of IsolationForest or
\* LocalOutlierFactor flags in the tables whose predictions the tests do
\* not record.
MaxFlagged == 2

IQR == "IQR"

ZSCORE == "ZSCORE"

ISOLATION_FOREST == "ISOLATION_FOREST"

LOCAL_OUTLIER_FACTOR == "LOCAL_OUTLIER_FACTOR"

DetectOutlierMethod == {IQR, ZSCORE, ISOLATION_FOREST, LOCAL_OUTLIER_FACTOR}

DROP == "DROP"

REPLACE_WITH_MEDIAN == "REPLACE_WITH_MEDIAN"

CAP_WITH_BOUNDARIES == "CAP_WITH_BOUNDARIES"

HandleOutlierMethod == {DROP, REPLACE_WITH_MEDIAN, CAP_WITH_BOUNDARIES}

\* a dict of columns: its keys in insertion order and the value of each
Dict(keys, values) == [keys |-> keys, of |-> [c \in Range(keys) |-> values[c]]]

EmptyDict == [keys |-> <<>>, of |-> <<>>]

\* a boundary of value base - sqrt(root) (a lower one) or base + sqrt(root)
\* (an upper one), is_float telling a Python or numpy float from an integer
Bound(base, root, is_float) == [base |-> base, root |-> root, is_float |-> is_float]

\* x < the lower boundary b
Below(x, b) ==
    LET d == FracMinus(b.base, x)
    IN d[1] > 0 /\ FracLess(b.root, FracTimes(d, d))

\* x > the upper boundary b
Above(x, b) ==
    LET d == FracMinus(x, b.base)
    IN d[1] > 0 /\ FracLess(b.root, FracTimes(d, d))

\* the index labels of the rows of t whose value in col satisfies Test
LabelsWhere(t, col, Test(_)) ==
    LET xs == Coefs(t.cells[col])
        hits == SelectSeq([p \in 1..Len(xs) |-> p], LAMBDA p : Test(xs[p]))
    IN [m \in 1..Len(hits) |-> t.index[hits[m]]]

\* the IQR case: (Q1 - 1.5 * IQR, Q3 + 1.5 * IQR) of the column
IQRBoundries(t, col) ==
    LET xs == Coefs(t.cells[col])
        Q1 == Quantile(xs, <<1, 4>>)
        Q3 == Quantile(xs, <<3, 4>>)
        spread == FracTimes(<<3, 2>>, FracMinus(Q3, Q1))
    IN <<Bound(FracMinus(Q1, spread), <<0, 1>>, TRUE),
         Bound(FracPlus(Q3, spread), <<0, 1>>, TRUE)>>

\* the ZSCORE case: (mean - 3 * std, mean + 3 * std) of the column, std the
\* sample standard deviation (ddof = 1) of two rows or more
ZScoreBoundries(t, col) ==
    LET xs == Coefs(t.cells[col])
        n == Len(xs)
        nine_var == FracTimes(<<9 * n, n - 1>>, Variance(xs))
    IN <<Bound(Mean(xs), nine_var, TRUE), Bound(Mean(xs), nine_var, TRUE)>>

\* the rows outside the boundaries
OutsideBoundries(t, col, bs) ==
    LabelsWhere(t, col, LAMBDA x : Below(x, bs[1]) \/ Above(x, bs[2]))

\* (inliers.min(), inliers.max()) of the column, the rows in flagged left out
InlierBoundries(t, col, flagged) ==
    LET xs == Coefs(t.cells[col])
        kept == SelectSeq([p \in 1..Len(xs) |-> p],
                          LAMBDA p : t.index[p] \notin Range(flagged))
        inliers == [m \in 1..Len(kept) |-> xs[kept[m]]]
    IN <<Bound(FracMin(inliers), <<0, 1>>, t.dtype[col] = "float64"),
         Bound(FracMax(inliers), <<0, 1>>, t.dtype[col] = "float64")>>

\* the fixture sample_df of tests/test_handle_outliers.py
outliers_sample_df ==
    Frame(<< <<"A">>, <<"B">>, <<"C">> >>, <<"int64", "int64", "int64">>,
          << [p \in 1..10 |-> IntCell(<<2, 3, 4, 5, 6, 8, 10, 11, 14, 15>>[p])],
             [p \in 1..10 |-> IntCell(<<10, 12, 99, 100, 102, 103, 105, 107, 300, 500>>[p])],
             [p \in 1..10 |-> IntCell(<<5, 7, 10, 11, 13, 100, 15, 18, 20, 17>>[p])] >>)

\* the predictions the tests record for sample_df, column by column
RecordedPredictions(method) ==
    IF method = ISOLATION_FOREST
    THEN Dict(<< <<"A">>, <<"B">>, <<"C">> >>,
              [c \in {<<"A">>, <<"B">>, <<"C">>} |->
                  IF c = <<"A">> THEN <<0, 8, 9>>
                  ELSE IF c = <<"B">> THEN <<0, 1, 8, 9>>
                  ELSE <<0, 5, 8>>])
    ELSE Dict(<< <<"A">>, <<"B">>, <<"C">> >>,
              [c \in {<<"A">>, <<"B">>, <<"C">>} |->
                  IF c = <<"A">> THEN <<>>
                  ELSE IF c = <<"B">> THEN <<0, 1, 8, 9>>
                  ELSE <<5>>])

\* the index lists fit_predict may flag: the rows predicted -1, in index
\* order, at least one row left as an inlier
FlaggedLists(t) ==
    {Sorted(S) : S \in {F \in SUBSET Range(t.index) :
                            Cardinality(F) <= MaxFlagged /\ F # Range(t.index)}}

\* the lists of the model-based methods for the columns observing, one
\* model per column or one model for all
ModelOutliers(t, method, observing, per_column) ==
    IF per_column
    THEN IF t = outliers_sample_df
         THEN {[c \in Range(observing) |-> RecordedPredictions(method).of[c]]}
         ELSE [Range(observing) -> FlaggedLists(t)]
    ELSE {[c \in Range(observing) |-> flagged] : flagged \in FlaggedLists(t)}

\* detect_outliers(data, detect_outlier_method, columns_subset, "auto",
\* n_neighbors, per_column_detection): the pairs (outliers, boundries) it
\* may return
DetectOutliers(t, method, sub, per_column) ==
    LET observing == GetObservingColumns(TRUE, t, sub)
    IN
    IF Len(observing) = 0 THEN {<<EmptyDict, EmptyDict>>}
    ELSE IF method = IQR THEN
        {<<Dict(observing, [c \in Range(observing) |->
                                OutsideBoundries(t, c, IQRBoundries(t, c))]),
           Dict(observing, [c \in Range(observing) |-> IQRBoundries(t, c)])>>}
    ELSE IF method = ZSCORE THEN
        {<<Dict(observing, [c \in Range(observing) |->
                                OutsideBoundries(t, c, ZScoreBoundries(t, c))]),
           Dict(observing, [c \in Range(observing) |-> ZScoreBoundries(t, c)])>>}
    ELSE
        {<<Dict(observing, lists),
           Dict(observing, [c \in Range(observing) |-> InlierBoundries(t, c, lists[c])])>>
            : lists \in ModelOutliers(t, method, observing, per_column)}

\* the set of the first list only
FirstListOnly(d) == IF d.keys = <<>> THEN {} ELSE Range(d.of[d.keys[1]])

\* set().union(*outliers.values())
AllDropIndexes(d) == UNION {Range(d.of[c]) : c \in Range(d.keys)}

\* data.drop(labels)
DropRows(t, labels) ==
    LET kept == SelectSeq([p \in 1..Len(t.index) |-> p],
                          LAMBDA p : t.index[p] \notin labels)
    IN [t EXCEPT !.index = [m \in 1..Len(kept) |-> t.index[kept[m]]],
                 !.cells = [c \in Range(t.columns) |->
                               [m \in 1..Len(kept) |-> t.cells[c][kept[m]]]]]

\* data[col].median()
Median(t, col) == Quantile(Coefs(t.cells[col]), <<1, 2>>)

\* the cell of the float x in a column of dtype dt
FloatIn(dt, x) == IF dt = "int64" THEN IntCell(x[1]) ELSE FloatCell(x[1], x[2])

\* every cell of the column set to the value
SetWholeColumn(t, col, labels, dt, cell) ==
    SetColumn(t, col, dt, [p \in 1..Len(t.index) |-> cell])

\* data.loc[labels, col] = value, the column taking the dtype dt
SetListed(t, col, labels, dt, cell) ==
    SetColumn(t, col, dt,
              [p \in 1..Len(t.index) |->
                  IF t.index[p] \in Range(labels) THEN cell
                  ELSE IF dt = "float64" /\ "n" \in DOMAIN t.cells[col][p]
                       THEN FloatCell(t.cells[col][p].n, 1)
                       ELSE t.cells[col][p]])

\* the float does not fit the dtype of the column without loss
NeedsUpcast(t, col, x) == t.dtype[col] = "int64" /\ x[2] # 1

\* data.loc[outliers[col], col] = data[col].median(): an empty list sets
\* nothing; a median an int64 column cannot hold makes the column float64
\* or, where the library refuses the upcast, raises TypeError
ReplaceWithMedian(t, col, labels, refuses) ==
    IF labels = <<>> THEN <<"none", t>>
    ELSE IF NeedsUpcast(t, col, Median(t, col)) THEN
        IF refuses THEN <<"TypeError", t>>
        ELSE <<"none", SetListed(t, col, labels, "float64",
                                 FloatIn("float64", Median(t, col)))>>
    ELSE <<"none", SetListed(t, col, labels, t.dtype[col],
                             FloatIn(t.dtype[col], Median(t, col)))>>

\* the cell holding the value of the boundary b
BoundCell(b, sign) ==
    IF ~IsZero(b.root) THEN [base |-> b.base, root |-> b.root, sign |-> sign]
    ELSE IF b.is_float THEN FloatCell(b.base[1], b.base[2])
    ELSE IntCell(b.base[1])

\* Series.clip(lower, upper) on one cell
Clip(cell, bs) ==
    IF Below(CoefOf(cell), bs[1]) THEN BoundCell(bs[1], -1)
    ELSE IF Above(CoefOf(cell), bs[2]) THEN BoundCell(bs[2], 1)
    ELSE cell

\* data[col].astype(float)
AsFloatColumn(t, col) ==
    SetColumn(t, col, "float64",
              [p \in 1..Len(t.index) |->
                  IF "n" \in DOMAIN t.cells[col][p]
                  THEN FloatCell(t.cells[col][p].n, 1)
                  ELSE t.cells[col][p]])

\* one column of the CAP_WITH_BOUNDARIES case: the column cast to float when
\* a boundary is a float, then the listed cells clipped
CapWithBoundaries(t, col, labels, bs) ==
    LET cast == IF bs[1].is_float \/ bs[2].is_float THEN AsFloatColumn(t, col) ELSE t
    IN [cast EXCEPT !.cells[col] =
            [p \in 1..Len(cast.index) |->
                IF cast.index[p] \in Range(labels)
                THEN Clip(cast.cells[col][p], bs)
                ELSE cast.cells[col][p]]]

\* a small table of an int64, a float64 and a text column
small_df ==
    Frame(<< <<"X">>, <<"Y">>, CityName >>, <<"int64", "float64", "object">>,
          << <<IntCell(1), IntCell(2), IntCell(3), IntCell(40)>>,
             <<FloatCell(-15, 2), FloatCell(3, 2), FloatCell(3, 2), FloatCell(3, 2)>>,
             <<StrCell(<<"B">>), StrCell(<<"P">>), StrCell(<<"M">>), StrCell(<<"R">>)>> >>)

\* eleven rows, the last far enough from the others for the ZSCORE case
zscore_df ==
    Frame(<< <<"A">> >>, <<"int64">>,
          << [p \in 1..11 |-> IntCell(IF p = 11 THEN 11 ELSE 0)] >>)

OutlierFrames == {outliers_sample_df, small_df, zscore_df}

\* None, the first column, and the last column of the table
OutlierSubsets(t) ==
    {NoneSubset, ListSubset(<<t.columns[1]>>), ListSubset(<<t.columns[Len(t.columns)]>>)}

InitOutliers ==
    /\ ho_original \in OutlierFrames
    /\ ho_data = ho_original
    /\ detect_outlier_method \in DetectOutlierMethod
    /\ ho_columns_subset \in OutlierSubsets(ho_original)
    /\ per_column_detection \in BOOLEAN
    /\ handle_outlier_method \in HandleOutlierMethod
    /\ refuses_upcast \in BOOLEAN
    /\ outliers = EmptyDict
    /\ boundries = EmptyDict
    /\ all_drop_indexes = {}
    /\ ho_k = 0
    /\ ho_pc = "start"
    /\ ho_exc = "none"

\* no call of handle_outliers
IdleOutliers ==
    /\ ho_original = NoFrame
    /\ ho_data = NoFrame
    /\ detect_outlier_method = IQR
    /\ ho_columns_subset = NoneSubset
    /\ per_column_detection = FALSE
    /\ handle_outlier_method = DROP
    /\ refuses_upcast = FALSE
    /\ outliers = EmptyDict
    /\ boundries = EmptyDict
    /\ all_drop_indexes = {}
    /\ ho_k = 0
    /\ ho_pc = "idle"
    /\ ho_exc = "none"

\* outliers, boundries = detect_outliers(data, detect_outlier_method, ...)
Detect ==
    /\ ho_pc = "start"
    /\ \E found \in DetectOutliers(ho_data, detect_outlier_method,
                                   ho_columns_subset, per_column_detection) :
          /\ outliers' = found[1]
          /\ boundries' = found[2]
    /\ ho_pc' = "detected"
    /\ UNCHANGED <<ho_original, ho_data, detect_outlier_method, ho_columns_subset,
                   per_column_detection, handle_outlier_method, refuses_upcast,
                   all_drop_indexes, ho_k, ho_exc>>
    /\ UNCHANGED outsideOutliers

\* handle_outliers up to the match: an empty dict returns the data, all
\* others collect the union of the lists
HandleBegin ==
    /\ ho_pc = "detected"
    /\ IF Len(outliers.keys) = 0
       THEN /\ ho_pc' = "returned"
            /\ UNCHANGED <<all_drop_indexes, ho_k>>
       ELSE /\ all_drop_indexes' = AllDropIndexes(outliers)
            /\ ho_k' = 1
            /\ ho_pc' = "match"
    /\ UNCHANGED <<ho_original, ho_data, detect_outlier_method, ho_columns_subset,
                   per_column_detection, handle_outlier_method, refuses_upcast,
                   outliers, boundries, ho_exc>>
    /\ UNCHANGED outsideOutliers

\* case HandleOutlierMethod.DROP, and the return
HandleDrop ==
    /\ ho_pc = "match"
    /\ handle_outlier_method = DROP
    /\ ho_data' = DropRows(ho_data, all_drop_indexes)
    /\ ho_pc' = "returned"
    /\ UNCHANGED <<ho_original, detect_outlier_method, ho_columns_subset,
                   per_column_detection, handle_outlier_method, refuses_upcast,
                   outliers, boundries, all_drop_indexes, ho_k, ho_exc>>
    /\ UNCHANGED outsideOutliers

\* one iteration of the loop of case HandleOutlierMethod.REPLACE_WITH_MEDIAN
HandleReplaceColumn ==
    /\ ho_pc = "match"
    /\ handle_outlier_method = REPLACE_WITH_MEDIAN
    /\ ho_k <= Len(outliers.keys)
    /\ LET col == outliers.keys[ho_k]
           out == ReplaceWithMedian(ho_data, col, outliers.of[col], refuses_upcast)
       IN /\ ho_exc' = out[1]
          /\ ho_data' = out[2]
          /\ ho_pc' = IF out[1] = "none" THEN "match" ELSE "raised"
    /\ ho_k' = ho_k + 1
    /\ UNCHANGED <<ho_original, detect_outlier_method, ho_columns_subset,
                   per_column_detection, handle_outlier_method, refuses_upcast,
                   outliers, boundries, all_drop_indexes>>
    /\ UNCHANGED outsideOutliers

\* one iteration of the loop of case HandleOutlierMethod.CAP_WITH_BOUNDARIES
HandleCapColumn ==
    /\ ho_pc = "match"
    /\ handle_outlier_method = CAP_WITH_BOUNDARIES
    /\ ho_k <= Len(outliers.keys)
    /\ LET col == outliers.keys[ho_k]
       IN ho_data' = CapWithBoundaries(ho_data, col, outliers.of[col], boundries.of[col])
    /\ ho_k' = ho_k + 1
    /\ UNCHANGED <<ho_original, detect_outlier_method, ho_columns_subset,
                   per_column_detection, handle_outlier_method, refuses_upcast,
                   outliers, boundries, all_drop_indexes, ho_pc, ho_exc>>
    /\ UNCHANGED outsideOutliers

\* the return after the loop of the two cases that keep every row
HandleReturn ==
    /\ ho_pc = "match"
    /\ handle_outlier_method # DROP
    /\ ho_k > Len(outliers.keys)
    /\ ho_pc' = "returned"
    /\ UNCHANGED <<ho_original, ho_data, detect_outlier_method, ho_columns_subset,
                   per_column_detection, handle_outlier_method, refuses_upcast,
                   outliers, boundries, all_drop_indexes, ho_k, ho_exc>>
    /\ UNCHANGED outsideOutliers

---------------------------------------------------------------------------
(* handle_missing_values_adjacent_value_imputation.  A missing cell (NaN,  *)
(* None, NaT) is [missing |-> TRUE], a bool is [b |-> v].                  *)

\* Largest number of rows of the enumerated tables with missing cells.
MaxMissingLen == 3

MissingCell == [missing |-> TRUE]

IsMissing(cell) == "missing" \in DOMAIN cell

BoolCell(v) == [b |-> v]

\* AdjacentImputationMethod
Forward == "Forward"

Backward == "Backward"

Interpolation_Linear == "Interpolation_Linear"

Interpolation_Time == "Interpolation_Time"

\* Faulty variant of FfillAt: a missing cell takes the cell just above it,
\* missing or not.
FfillOneStep(cells, p) ==
    IF ~IsMissing(cells[p]) THEN cells[p]
    ELSE IF p = 1 THEN cells[p]
    ELSE cells[p - 1]

\* the cell a forward fill leaves at position p: the scan carries the last
\* valid cell down
RECURSIVE FfillAt(_, _)
FfillAt(cells, p) ==
    IF ~IsMissing(cells[p]) THEN cells[p]
    ELSE IF p = 1 THEN cells[p]
    ELSE FfillAt(cells, p - 1)

\* the cell a backward fill leaves at position p
RECURSIVE BfillAt(_, _)
BfillAt(cells, p) ==
    IF ~IsMissing(cells[p]) THEN cells[p]
    ELSE IF p = Len(cells) THEN cells[p]
    ELSE BfillAt(cells, p + 1)

\* data.ffill(inplace=True)
Ffill(t) ==
    [t EXCEPT !.cells = [c \in Range(t.columns) |->
                            [p \in 1..Len(t.cells[c]) |-> FfillAt(t.cells[c], p)]]]

\* data.bfill(inplace=True)
Bfill(t) ==
    [t EXCEPT !.cells = [c \in Range(t.columns) |->
                            [p \in 1..Len(t.cells[c]) |-> BfillAt(t.cells[c], p)]]]

\* Series.interpolate over the coordinates xs (the positions for 'linear',
\* the index for 'time'): a gap between two valid cells is filled on the
\* line through them, a gap after the last valid cell with that cell, a gap
\* before the first valid cell stays
InterpolateAt(cells, xs, p) ==
    LET before == {q \in 1..(p - 1) : ~IsMissing(cells[q])}
        after == {q \in (p + 1)..Len(cells) : ~IsMissing(cells[q])}
    IN
    IF ~IsMissing(cells[p]) \/ before = {} THEN cells[p]
    ELSE LET q == CHOOSE x \in before : \A y \in before : y <= x IN
         IF after = {} THEN cells[q]
         ELSE LET r == MinOf(after)
                  slope == FracTimes(FracMinus(cells[r].f, cells[q].f),
                                     <<xs[p] - xs[q], xs[r] - xs[q]>>)
                  v == FracPlus(cells[q].f, slope)
              IN FloatCell(v[1], v[2])

Interpolate(cells, xs) == [p \in 1..Len(cells) |-> InterpolateAt(cells, xs, p)]

\* the loop over data.columns of the two interpolation branches: the numeric
\* columns are interpolated (a column that cannot hold NaN comes back as it is)
InterpolateNumeric(t, xs) ==
    [t EXCEPT !.cells = [c \in Range(t.columns) |->
                            IF t.dtype[c] = "float64" THEN Interpolate(t.cells[c], xs)
                            ELSE t.cells[c]]]

\* the day of the year of a date
RECURSIVE DayOfYear(_, _, _)
DayOfYear(y, m, d) == IF m = 1 THEN d ELSE DaysIn(y, m - 1) + DayOfYear(y, m - 1, d)

\* the index of days after data.set_index(time_reference_col), for dates of
\* one year
DayIndex(cells) == [p \in 1..Len(cells) |-> DayOfYear(cells[p].d[1], cells[p].d[2], cells[p].d[3])]

IsoFormat == <<"%", "Y", "-", "%", "m", "-", "%", "d">>

\* pd.to_datetime(data[time_reference_col]) without a format: <<exception,
\* cells>>, for a column of datetimes, of bools, or of strings that are
\* year-month-day dates or no dates at all
ToDatetimeNoFormat(t, col) ==
    LET cells == t.cells[col] IN
    IF t.dtype[col] = "datetime64" THEN <<"none", cells>>
    ELSE IF t.dtype[col] = "bool" THEN <<"TypeError", cells>>
    ELSE IF \A p \in 1..Len(cells) :
                IsMissing(cells[p]) \/ ToDatetime(IsoFormat, cells[p].s) # {}
         THEN <<"none", [p \in 1..Len(cells) |->
                            IF IsMissing(cells[p]) THEN cells[p]
                            ELSE LET r == CHOOSE r \in ToDatetime(IsoFormat, cells[p].s) : TRUE
                                 IN DateCell(r.Y, r.m, r.d)]>>
    ELSE <<"ValueError", cells>>

\* data.set_index(col), the interpolation, data.reset_index(): the column
\* comes back as the first one
MoveFirst(t, col) ==
    [t EXCEPT !.columns = <<col>> \o SelectSeq(t.columns, LAMBDA c : c # col)]

---------------------------------------------------------------------------
(* Inputs of the imputation function *)

ColA == <<"A">>

ColB == <<"B">>

ColC == <<"C">>

ColDate == <<"d", "a", "t", "e">>

ColValue == <<"v", "a", "l", "u", "e">>

ColFlag == <<"f", "l", "a", "g">>

ColV == <<"V">>

ColT == <<"T">>

\* the fixture sample_df1 of the tests
sample_df1 ==
    Frame(<<ColA, ColB, ColC>>, <<"float64", "object", "datetime64">>,
          << <<FloatCell(1, 1), FloatCell(2, 1), MissingCell, FloatCell(4, 1)>>,
             <<MissingCell, StrCell(<<"x">>), StrCell(<<"y">>), MissingCell>>,
             <<DateCell(2023, 1, 1), DateCell(2023, 1, 2), DateCell(2023, 1, 3),
               DateCell(2023, 1, 4)>> >>)

\* the fixture sample_df2 of the tests
sample_df2 ==
    Frame(<<ColA, ColB, ColC>>, <<"float64", "float64", "object">>,
          << <<FloatCell(1, 1), FloatCell(2, 1), MissingCell, FloatCell(4, 1)>>,
             <<MissingCell, FloatCell(2, 1), FloatCell(3, 1), FloatCell(4, 1)>>,
             <<StrCell(<<"a">>), StrCell(<<"a">>), StrCell(<<"c">>), MissingCell>> >>)

\* sample_df1 with C[3] set to 2023-01-08, the table of the test of the time
\* interpolation
time_df == [sample_df1 EXCEPT !.cells[ColC][4] = DateCell(2023, 1, 8)]

\* the table of the test of an invalid time column
invalid_time_df ==
    Frame(<<ColDate, ColValue>>, <<"object", "float64">>,
          << <<StrCell(<<"a">>), StrCell(<<"b">>), StrCell(<<"c">>), StrCell(<<"d">>)>>,
             <<FloatCell(1, 1), MissingCell, FloatCell(3, 1), FloatCell(4, 1)>> >>)

\* a table with the dates as strings
iso_time_df ==
    Frame(<<ColDate, ColValue>>, <<"object", "float64">>,
          << <<StrCell(<<"2", "0", "2", "3", "-", "0", "1", "-", "0", "1">>),
               StrCell(<<"2", "0", "2", "3", "-", "0", "1", "-", "0", "2">>),
               StrCell(<<"2", "0", "2", "3", "-", "0", "1", "-", "0", "5">>)>>,
             <<FloatCell(1, 1), MissingCell, FloatCell(3, 1)>> >>)

\* a table with a column of bools, as read_csv makes of True/False
flag_df ==
    Frame(<<ColFlag, ColValue>>, <<"bool", "float64">>,
          << <<BoolCell(TRUE), BoolCell(FALSE), BoolCell(TRUE)>>,
             <<FloatCell(1, 1), MissingCell, FloatCell(3, 1)>> >>)

\* the tables of n rows with a float column V of missing cells, 1 and 3, and
\* a datetime column T of days further and further apart
GapFrames ==
    UNION { { Frame(<<ColV, ColT>>, <<"float64", "datetime64">>,
                    <<v, [p \in 1..n |-> DateCell(2023, 1, 2 * p * p - 1)]>>)
              : v \in [1..n -> {MissingCell, FloatCell(1, 1), FloatCell(3, 1)}] }
            : n \in 0..MaxMissingLen }

MissingFrames ==
    {sample_df1, sample_df2, time_df, invalid_time_df, iso_time_df, flag_df} \cup GapFrames

\* the time_reference_col arguments tried on t: none, a column t does not
\* have, and the columns of t that are not numeric
TimeColumnsFor(t) ==
    {<<>>, Zip} \cup {c \in Range(t.columns) : ~IsNumericDtype(t.dtype[c])}

---------------------------------------------------------------------------
(* The state machine of handle_missing_values_adjacent_value_imputation:   *)
(* one call, a step per branch of the match.                               *)

InitMissing ==
    /\ mv_data \in MissingFrames
    /\ mv_original = mv_data
    /\ adjancent_imputation_method \in
           {Forward, Backward, Interpolation_Linear, Interpolation_Time}
    /\ time_reference_col \in
           (IF adjancent_imputation_method = Interpolation_Time
            THEN TimeColumnsFor(mv_data) ELSE {<<>>})
    /\ mv_returned = NoFrame
    /\ mv_exc = "none"
    /\ mv_pc = "start"

\* no call of the imputation function
IdleMissing ==
    /\ mv_data = NoFrame
    /\ mv_original = NoFrame
    /\ adjancent_imputation_method = Forward
    /\ time_reference_col = <<>>
    /\ mv_returned = NoFrame
    /\ mv_exc = "none"
    /\ mv_pc = "idle"

\* case AdjacentImputationMethod.Forward, and the return
ImputeForward ==
    /\ mv_pc = "start"
    /\ adjancent_imputation_method = Forward
    /\ mv_data' = Ffill(mv_data)
    /\ mv_returned' = Ffill(mv_data)
    /\ mv_pc' = "returned"
    /\ UNCHANGED <<mv_original, adjancent_imputation_method, time_reference_col, mv_exc>>
    /\ UNCHANGED outsideMissing

\* case AdjacentImputationMethod.Backward, and the return
ImputeBackward ==
    /\ mv_pc = "start"
    /\ adjancent_imputation_method = Backward
    /\ mv_data' = Bfill(mv_data)
    /\ mv_returned' = Bfill(mv_data)
    /\ mv_pc' = "returned"
    /\ UNCHANGED <<mv_original, adjancent_imputation_method, time_reference_col, mv_exc>>
    /\ UNCHANGED outsideMissing

\* case AdjacentImputationMethod.Interpolation_Linear, and the return
ImputeInterpolationLinear ==
    /\ mv_pc = "start"
    /\ adjancent_imputation_method = Interpolation_Linear
    /\ LET filled == InterpolateNumeric(mv_data, [p \in 1..Len(mv_data.index) |-> p]) IN
          /\ mv_data' = filled
          /\ mv_returned' = filled
    /\ mv_pc' = "returned"
    /\ UNCHANGED <<mv_original, adjancent_imputation_method, time_reference_col, mv_exc>>
    /\ UNCHANGED outsideMissing

\* case AdjacentImputationMethod.Interpolation_Time, and the return
ImputeInterpolationTime ==
    /\ mv_pc = "start"
    /\ adjancent_imputation_method = Interpolation_Time
    /\ IF time_reference_col = <<>>
       THEN /\ mv_returned' = NoFrame
            /\ mv_pc' = "returned"
            /\ UNCHANGED <<mv_data, mv_exc>>
       ELSE IF time_reference_col \notin Range(mv_data.columns)
       THEN /\ mv_exc' = "KeyError"
            /\ mv_pc' = "raised"
            /\ UNCHANGED <<mv_data, mv_returned>>
       ELSE LET parsed == ToDatetimeNoFormat(mv_data, time_reference_col) IN
            IF parsed[1] = "ValueError"
            THEN /\ mv_returned' = NoFrame
                 /\ mv_pc' = "returned"
                 /\ UNCHANGED <<mv_data, mv_exc>>
            ELSE IF parsed[1] # "none"
            THEN /\ mv_exc' = parsed[1]
                 /\ mv_pc' = "raised"
                 /\ UNCHANGED <<mv_data, mv_returned>>
            ELSE LET dated == SetColumn(mv_data, time_reference_col, "datetime64", parsed[2])
                     filled == MoveFirst(InterpolateNumeric(dated, DayIndex(parsed[2])),
                                         time_reference_col)
                 IN /\ mv_data' = filled
                    /\ mv_returned' = filled
                    /\ mv_pc' = "returned"
                    /\ UNCHANGED mv_exc
    /\ UNCHANGED <<mv_original, adjancent_imputation_method, time_reference_col>>
    /\ UNCHANGED outsideMissing

---------------------------------------------------------------------------
(* main() of the scripts: the arguments, load_data, the output directory,  *)
(* then one output per step.  What a called function does to the table is  *)
(* not looked at here, only whether its result is written.                 *)

\* Largest number of outputs of one run that are followed.
MaxOutputs == 3

Scripts ==
    {"handle_duplicate_values", "handle_missing_values", "handle_outliers",
     "convert_datatype", "scale_feature", "encode_categorical",
     "encoding_convertdt", "feature_scaling"}

\* the csv files main() of script s writes, in order
AllOutputs(s) ==
    IF s = "handle_duplicate_values"
    THEN <<"dataset_cleaned_drop.csv", "dataset_cleaned_fuzzy.csv">>
    ELSE IF s = "handle_missing_values"
    THEN <<"dataset_cleaned_drop.csv",
           "dataset_cleaned_datatype_imputation_mean.csv",
           "dataset_cleaned_datatype_imputation_median.csv",
           "dataset_cleaned_datatype_imputation_mode.csv",
           "dataset_cleaned_adjacent_value_imputation_forward.csv",
           "dataset_cleaned_adjacent_value_imputation_backward.csv",
           "dataset_cleaned_adjacent_value_imputation_interpolation_linear.csv",
           "dataset_cleaned_adjacent_value_imputation_interpolation_time.csv">>
    ELSE IF s = "handle_outliers"
    THEN <<"dataset_cleaned_IQR_DROP.csv",
           "dataset_cleaned_IQR_REPLACE_WITH_MEDIAN.csv",
           "dataset_cleaned_IQR_CAP_WITH_BOUNDARIES.csv",
           "dataset_cleaned_ZSCORE_DROP.csv",
           "dataset_cleaned_ZSCORE_REPLACE_WITH_MEDIAN.csv",
           "dataset_cleaned_ZSCORE_CAP_WITH_BOUNDARIES.csv">>
    ELSE IF s = "convert_datatype"
    THEN <<"dataset_converted_auto.csv", "dataset_converted_ud.csv">>
    ELSE IF s = "scale_feature"
    THEN <<"dataset_scaled.csv">>
    ELSE IF s = "encode_categorical"
    THEN <<"dataset_label_encoding.csv", "dataset_onehot_encoding.csv",
           "dataset_hashing.csv">>
    ELSE <<>>

\* the outputs of a run that are followed
Outputs(s) ==
    SubSeq(AllOutputs(s), 1, IF Len(AllOutputs(s)) < MaxOutputs THEN Len(AllOutputs(s))
                             ELSE MaxOutputs)

\* shutil.rmtree(dir) without a test of path.exists(dir) before it
RemovesUnchecked(s) == s = "handle_missing_values"

\* Faulty variant of LoadedEmpty: only a failed load counts as empty.
LoadedEmptyOnFailure(file) == file = "no csv"

\* original_data.empty, for what load_data returns on the file
LoadedEmpty(file) == file \in {"no csv", "no rows"}

\* a file left by an earlier run or put there by the user
StaleFile == "stale.csv"

InitMain ==
    /\ script \in Scripts
    /\ argv_case \in {"too few", "matched", "unmatched"}
    /\ dataset_file \in {"no csv", "no rows", "rows"}
    /\ dir_exists \in BOOLEAN
    /\ dir_files \in (IF dir_exists THEN {{}, {StaleFile}} ELSE {{}})
    /\ dir_before = [exists |-> dir_exists, files |-> dir_files]
    /\ fs_log = <<>>
    /\ out_k = 0
    /\ main_exc = "none"
    /\ main_pc = "start"

\* no run of a script
IdleMain ==
    /\ script = "handle_duplicate_values"
    /\ argv_case = "matched"
    /\ dataset_file = "rows"
    /\ dir_exists = FALSE
    /\ dir_files = {}
    /\ dir_before = [exists |-> FALSE, files |-> {}]
    /\ fs_log = <<>>
    /\ out_k = 0
    /\ main_exc = "none"
    /\ main_pc = "idle"

\* main() up to the output directory: the check of len(sys.argv), the match
\* (dataset_path is not bound when no case matches), load_data and the test
\* of original_data.empty
MainLoad ==
    /\ main_pc = "start"
    /\ IF argv_case = "too few"
       THEN main_pc' = "exited" /\ UNCHANGED main_exc
       ELSE IF argv_case = "unmatched"
       THEN main_pc' = "raised" /\ main_exc' = "UnboundLocalError"
       ELSE IF LoadedEmpty(dataset_file)
       THEN main_pc' = "returned" /\ UNCHANGED main_exc
       ELSE main_pc' = "loaded" /\ UNCHANGED main_exc
    /\ UNCHANGED <<script, argv_case, dataset_file, dir_before, dir_exists, dir_files,
                   fs_log, out_k>>
    /\ UNCHANGED outsideMain

\* "if path.exists(output_dir): shutil.rmtree(output_dir)", or the bare
\* shutil.rmtree(cleaned_data_dir)
MainRmtree ==
    /\ main_pc = "loaded"
    /\ IF dir_exists
       THEN /\ dir_exists' = FALSE
            /\ dir_files' = {}
            /\ fs_log' = Append(fs_log, "rmtree")
            /\ main_pc' = "removed"
            /\ UNCHANGED main_exc
       ELSE IF RemovesUnchecked(script)
       THEN /\ main_exc' = "FileNotFoundError"
            /\ main_pc' = "raised"
            /\ UNCHANGED <<dir_exists, dir_files, fs_log>>
       ELSE /\ main_pc' = "removed"
            /\ UNCHANGED <<dir_exists, dir_files, fs_log, main_exc>>
    /\ UNCHANGED <<script, argv_case, dataset_file, dir_before, out_k>>
    /\ UNCHANGED outsideMain

\* makedirs(output_dir, exist_ok=True)
MainMakedirs ==
    /\ main_pc = "removed"
    /\ dir_exists' = TRUE
    /\ fs_log' = Append(fs_log, "makedirs")
    /\ out_k' = 1
    /\ main_pc' = "created"
    /\ UNCHANGED <<script, argv_case, dataset_file, dir_before, dir_files, main_exc>>
    /\ UNCHANGED outsideMain

\* one output: the function is called on a copy of the dataset (it may
\* raise), and its result is written unless it is empty; handle_outliers
\* then saves the figures in the folder visualizations
MainOutput ==
    /\ main_pc = "created"
    /\ out_k <= Len(Outputs(script))
    /\ \E outcome \in {"written", "empty", "raised"} :
          IF outcome = "raised"
          THEN /\ main_exc' = "Exception"
               /\ main_pc' = "raised"
               /\ UNCHANGED <<dir_files, fs_log, out_k>>
          ELSE /\ \E figures \in (IF script = "handle_outliers" THEN BOOLEAN ELSE {FALSE}) :
                    /\ dir_files' = dir_files
                          \cup (IF outcome = "written" THEN {Outputs(script)[out_k]} ELSE {})
                          \cup (IF figures THEN {"visualizations"} ELSE {})
                    /\ fs_log' = fs_log
                          \o (IF outcome = "written" THEN <<"to_csv">> ELSE <<>>)
                          \o (IF figures THEN <<"savefig">> ELSE <<>>)
               /\ out_k' = out_k + 1
               /\ UNCHANGED <<main_exc, main_pc>>
    /\ UNCHANGED <<script, argv_case, dataset_file, dir_before, dir_exists>>
    /\ UNCHANGED outsideMain

\* the end of main()
MainReturn ==
    /\ main_pc = "created"
    /\ out_k > Len(Outputs(script))
    /\ main_pc' = "returned"
    /\ UNCHANGED <<script, argv_case, dataset_file, dir_before, dir_exists, dir_files,
                   fs_log, out_k, main_exc>>
    /\ UNCHANGED outsideMain

---------------------------------------------------------------------------
(* The specifications *)

Init ==
    /\ InitDuplicates
    /\ IdleConvert
    /\ IdleScale
    /\ IdleColumns
    /\ IdleOutliers
    /\ IdleMissing
    /\ IdleMain

Next ==
    \/ HandleDuplicateValuesDrop
    \/ FuzzyBegin
    \/ FuzzyPair
    \/ FuzzyFinish

Spec == Init /\ [][Next]_vars

\* A caller that calls the two functions up to MaxCalls times on one table.
InitRepeat ==
    /\ Init
    /\ data \in RepeatTables

NextRepeat ==
    \/ HandleDuplicateValuesDrop
    \/ FuzzyBegin
    \/ FuzzyPair
    \/ FuzzyFinish
    \/ CallAgain

SpecRepeat == InitRepeat /\ [][NextRepeat]_vars

\* The two functions on tables whose accepted pairs form chains, the table
\* returned given to them again.
InitChain ==
    /\ data \in ChainTables
    /\ subset \in ChainSubsets
    /\ range_arg \in ChainRanges
    /\ pc = "start"
    /\ ratio_range = <<>>
    /\ comparison_columns = <<>>
    /\ data_duplicated_sets = <<>>
    /\ k = 0
    /\ data_duplicated_index_show = <<>>
    /\ data_duplicated_index_drop = <<>>
    /\ data_cleaned_fuzzy = NoTable
    /\ fuzzy_exc = "none"
    /\ data_cleaned_drop = NoTable
    /\ drop_exc = "none"
    /\ pandas_raises = FALSE
    /\ returned = <<>>
    /\ IdleConvert
    /\ IdleScale
    /\ IdleColumns
    /\ IdleOutliers
    /\ IdleMissing
    /\ IdleMain

NextChain ==
    \/ HandleDuplicateValuesDrop
    \/ FuzzyBegin
    \/ FuzzyPair
    \/ FuzzyFinish
    \/ ApplyAgain

SpecChain == InitChain /\ [][NextChain]_vars

\* A call of convert_datatype_ud.
InitConvertOnly ==
    /\ IdleDuplicates
    /\ InitConvert
    /\ IdleScale
    /\ IdleColumns
    /\ IdleOutliers
    /\ IdleMissing
    /\ IdleMain

NextConvert ==
    \/ ConvertBegin
    \/ ConvertColumn
    \/ ConvertReturn

SpecConvert == InitConvertOnly /\ [][NextConvert]_vars

\* A call of scale_feature.
InitScaleOnly ==
    /\ IdleDuplicates
    /\ IdleConvert
    /\ InitScale
    /\ IdleColumns
    /\ IdleOutliers
    /\ IdleMissing
    /\ IdleMain

NextScale ==
    \/ ScaleBegin
    \/ ScaleColumn
    \/ ScaleFinish

SpecScale == InitScaleOnly /\ [][NextScale]_vars

\* A call of one of the get_observing_columns functions.
InitColumnsOnly ==
    /\ IdleDuplicates
    /\ IdleConvert
    /\ IdleScale
    /\ InitColumns
    /\ IdleOutliers
    /\ IdleMissing
    /\ IdleMain

NextColumns ==
    \/ GetObservingColumnsNumeric
    \/ GetObservingColumnsCategorical

SpecColumns == InitColumnsOnly /\ [][NextColumns]_vars

\* detect_outliers, then handle_outliers on its result, as the tests and
\* main() call them.
InitOutliersOnly ==
    /\ IdleDuplicates
    /\ IdleConvert
    /\ IdleScale
    /\ IdleColumns
    /\ InitOutliers
    /\ IdleMissing
    /\ IdleMain

NextOutliers ==
    \/ Detect
    \/ HandleBegin
    \/ HandleDrop
    \/ HandleReplaceColumn
    \/ HandleCapColumn
    \/ HandleReturn

SpecOutliers == InitOutliersOnly /\ [][NextOutliers]_vars

\* A call of handle_missing_values_adjacent_value_imputation.
InitMissingOnly ==
    /\ IdleDuplicates
    /\ IdleConvert
    /\ IdleScale
    /\ IdleColumns
    /\ IdleOutliers
    /\ InitMissing
    /\ IdleMain

NextMissing ==
    \/ ImputeForward
    \/ ImputeBackward
    \/ ImputeInterpolationLinear
    \/ ImputeInterpolationTime

SpecMissing == InitMissingOnly /\ [][NextMissing]_vars

\* A run of main() of one of the scripts.
InitMainOnly ==
    /\ IdleDuplicates
    /\ IdleConvert
    /\ IdleScale
    /\ IdleColumns
    /\ IdleOutliers
    /\ IdleMissing
    /\ InitMain

NextMain ==
    \/ MainLoad
    \/ MainRmtree
    \/ MainMakedirs
    \/ MainOutput
    \/ MainReturn

SpecMain == InitMainOnly /\ [][NextMain]_vars

---------------------------------------------------------------------------
(* Vocabulary of the properties *)

Labels(t) == Range(t.index)

\* handle_duplicate_values_fuzzy has returned
FuzzyReturned == pc = "done" /\ fuzzy_exc = "none"

\* the pair loop is over and the clusters are final
LoopFinished == pc = "pairs" /\ k > Len(Combinations2(data.index))

\* the step from the end of the pair loop to the return of the function
FinishStep == pc = "pairs" /\ pc' = "done" /\ fuzzy_exc' = "none"

\* every pair of distinct rows of the call has an average ratio
RatiosDefined == PairException(data, ResolveColumns(data, subset)) = "none"

\* low <= average ratio of rows i and j <= high, on the columns and range of
\* the call (stated on the fractions, apart from InRange)
PairInRange(i, j, low, high) ==
    LET rs == ColumnRatios(data, ResolveColumns(data, subset), i, j)
        num == FracSum(rs)[1]
        den == FracSum(rs)[2] * Len(rs)
    IN low * den <= num /\ num <= high * den

GivenLow == IF range_arg = <<>> THEN 90 ELSE range_arg[1]

GivenHigh == IF range_arg = <<>> THEN 100 ELSE range_arg[2]

\* the accepted pairs of the call
AcceptedPairs ==
    IF ~RatiosDefined THEN {}
    ELSE {pr \in Range(Combinations2(data.index)) :
            PairInRange(pr[1], pr[2], GivenLow, GivenHigh)}

---------------------------------------------------------------------------
(* C1: when handle_duplicate_values_fuzzy returns, for every cluster of    *)
(* the final cluster list the row with the smallest index of the cluster   *)
(* is in the returned table and every other member of the cluster is not.  *)
(* Violated: the smallest index of a cluster can be a later member of an   *)
(* earlier cluster, and is then dropped.                                   *)
C1_RepresentativeRetained ==
    [][FinishStep =>
        \A m \in 1..Len(data_duplicated_sets) :
            /\ MinOf(data_duplicated_sets[m]) \in Labels(data_cleaned_fuzzy')
            /\ \A x \in data_duplicated_sets[m] \ {MinOf(data_duplicated_sets[m])} :
                   x \notin Labels(data_cleaned_fuzzy')]_vars

(* C2: at every point of the pair loop the sets of data_duplicated_sets    *)
(* are pairwise disjoint.  Violated: a pair that joins a member of one set *)
(* to a member of a later set puts both into the earlier set only.         *)
C2_ClustersDisjoint ==
    pc = "pairs" =>
        \A m, n \in 1..Len(data_duplicated_sets) :
            m # n => data_duplicated_sets[m] \cap data_duplicated_sets[n] = {}

---------------------------------------------------------------------------
(* C3 *)

\* the low bounds the range of the call is compared with
Lows == {50, 60, 90, 95, 100}

\* number of rows the call would drop with the low bound low1 and its own high bound
DropCountWithLow(low1) ==
    Cardinality(UnionAll(RemoveFirsts(
        PairLoop(data, comparison_columns, <<low1, ratio_range[2]>>, <<>>, 1))))

\* the cluster list the pair loop builds when exactly the pairs of acc are accepted
RECURSIVE SetsOfAccepted(_, _, _, _)
SetsOfAccepted(pairs, acc, sets, m) ==
    IF m > Len(pairs) THEN sets
    ELSE SetsOfAccepted(pairs, acc,
            IF pairs[m] \in acc THEN AddPair(sets, pairs[m][1], pairs[m][2]) ELSE sets,
            m + 1)

DropCountOfAccepted(pairs, acc) ==
    Cardinality(UnionAll(RemoveFirsts(SetsOfAccepted(pairs, acc, <<>>, 1))))

(* C3: range monotonicity.  When handle_duplicate_values_fuzzy returns,    *)
(* the number of rows it dropped is at least the number it drops on the    *)
(* same table and columns with any higher low bound and the same high      *)
(* bound, and at least the number it drops when only a subset of the       *)
(* accepted pairs is accepted.                                             *)
C3_RangeMonotone ==
    FuzzyReturned =>
        LET pairs == Combinations2(data.index)
            dropped == Len(data_duplicated_index_drop)
        IN
        /\ \A low1 \in Lows :
              low1 >= ratio_range[1] => DropCountWithLow(low1) <= dropped
        /\ \A acc \in SUBSET AcceptedPairs :
              DropCountOfAccepted(pairs, acc) <= dropped

\* a lower low bound has dropped strictly more rows than a higher one does
C3_Witness ==
    /\ FuzzyReturned
    /\ \E low1 \in Lows :
          /\ low1 > ratio_range[1]
          /\ 0 < DropCountWithLow(low1)
          /\ DropCountWithLow(low1) < Len(data_duplicated_index_drop)

---------------------------------------------------------------------------
(* C4 *)

\* the values are consistently cased and trimmed: a pair's average ratio is
\* 100 exactly when its rows are equal on all comparison columns
ConsistentValues ==
    /\ RatiosDefined
    /\ \A pr \in Range(Combinations2(data.index)) :
          PairInRange(pr[1], pr[2], 100, 100)
          <=> EqualOn(data, ResolveColumns(data, subset),
                      PosOf(data, pr[1]), PosOf(data, pr[2]))

\* the subset is None or a non-empty list: both functions compare the same columns
SameColumnsCompared == subset.is_none \/ subset.cols # <<>>

\* the labels of the rows equal to the row labelled x on the comparison columns
EqualityClass(x) ==
    {y \in Labels(data) :
        EqualOn(data, ResolveColumns(data, subset), PosOf(data, x), PosOf(data, y))}

---------------------------------------------------------------------------
(* C5: a row is absent from the table handle_duplicate_values_fuzzy        *)
(* returns if and only if it belongs to a final cluster of which it is not *)
(* the smallest index; a row of no cluster is present.                     *)
C5_DroppedIffNonMinimum ==
    [][FinishStep =>
        \A x \in Labels(data) :
            x \notin Labels(data_cleaned_fuzzy')
            <=> \E m \in 1..Len(data_duplicated_sets) :
                    x \in data_duplicated_sets[m] /\ x # MinOf(data_duplicated_sets[m])]_vars

\* the function has returned, having dropped a row and kept a row of no cluster
C5_Witness ==
    /\ FuzzyReturned
    /\ Len(data_duplicated_index_drop) > 0
    /\ \E x \in Labels(data) :
          x \notin Range(data_duplicated_index_show) /\ x \in Labels(data_cleaned_fuzzy)

---------------------------------------------------------------------------
(* C6 *)

\* out holds rows of t, unchanged, in their order in t, none twice
IsSubTable(out, t) ==
    /\ out.columns = t.columns
    /\ Len(out.rows) = Len(out.index)
    /\ \A p \in 1..Len(out.index) :
          /\ out.index[p] \in Labels(t)
          /\ out.rows[p] = t.rows[PosOf(t, out.index[p])]
    /\ \A p, q \in 1..Len(out.index) :
          p < q => PosOf(t, out.index[p]) < PosOf(t, out.index[q])

(* C6: the table returned by handle_duplicate_values_fuzzy, and the one    *)
(* returned by handle_duplicate_values_drop, is a subsequence of the input *)
(* table: rows in their input order, cells unchanged, no row added or      *)
(* repeated.                                                               *)
C6_OutputIsSubsequence ==
    /\ FuzzyReturned => IsSubTable(data_cleaned_fuzzy, data)
    /\ (pc # "start" /\ drop_exc = "none") => IsSubTable(data_cleaned_drop, data)

\* both functions have returned at least two rows, and not a prefix of the input
C6_Witness ==
    /\ FuzzyReturned
    /\ drop_exc = "none"
    /\ NumRows(data_cleaned_fuzzy) >= 2
    /\ NumRows(data_cleaned_drop) >= 2
    /\ \E p \in 1..NumRows(data_cleaned_fuzzy) : data_cleaned_fuzzy.index[p] # p - 1
    /\ \E p \in 1..NumRows(data_cleaned_drop) : data_cleaned_drop.index[p] # p - 1

---------------------------------------------------------------------------
(* C7: for every accepted pair (i, j), i < j, row j is absent from the     *)
(* table handle_duplicate_values_fuzzy returns, so with an accepted pair   *)
(* the output has fewer rows than the input; with 5 rows and the accepted  *)
(* pairs (0,1) and (3,4) exactly, the output is rows 0, 2 and 3.           *)
C7_SecondOfAcceptedPairDropped ==
    FuzzyReturned =>
        LET acc == AcceptedPairs IN
        /\ \A pr \in acc : pr[2] \notin Labels(data_cleaned_fuzzy)
        /\ acc # {} => NumRows(data_cleaned_fuzzy) < NumRows(data)
        /\ (NumRows(data) = 5 /\ acc = {<<0, 1>>, <<3, 4>>}) =>
               data_cleaned_fuzzy.index = <<0, 2, 3>>

\* the test's table with the default range: rows 0, 2 and 3 are returned
C7_Witness ==
    /\ FuzzyReturned
    /\ data = fuzzy_data
    /\ range_arg = <<>>
    /\ subset.is_none
    /\ AcceptedPairs = {<<0, 1>>, <<3, 4>>}
    /\ data_cleaned_fuzzy.index = <<0, 2, 3>>

---------------------------------------------------------------------------
(* C8 *)

\* an iteration of the pair loop that went through without an exception
PairStepTaken == pc = "pairs" /\ pc' = "pairs"

\* the two rows are identical on the comparison columns of the call
IdenticalRows(i, j) ==
    EqualOn(data, ResolveColumns(data, subset), PosOf(data, i), PosOf(data, j))

---------------------------------------------------------------------------
(* C9: when no pair of distinct rows has an average ratio inside           *)
(* ratio_range, in particular whenever low > high,                         *)
(* handle_duplicate_values_fuzzy creates no cluster and returns a table    *)
(* equal to the input, without raising.  Violated on a table of two rows   *)
(* with a subset that names a missing column, or with no column at all:    *)
(* the first pair raises.                                                  *)
C9_NoMatchReturnsInput ==
    (pc = "done" /\ AcceptedPairs = {}) =>
        /\ fuzzy_exc = "none"
        /\ data_duplicated_index_show = <<>>
        /\ data_cleaned_fuzzy = data

---------------------------------------------------------------------------
(* C10: on a table without rows, whatever the subset and the range, both   *)
(* functions return a table without rows and raise nothing, and the fuzzy  *)
(* function compares no pair.                                              *)
C10_EmptyTable ==
    NumRows(data) = 0 =>
        /\ fuzzy_exc = "none"
        /\ drop_exc = "none"
        /\ k <= 1
        /\ data_duplicated_sets = <<>>
        /\ pc # "start" => data_cleaned_drop = data
        /\ pc = "done" => data_cleaned_fuzzy = data

\* both functions have returned on a table without rows, given a subset that
\* names a column the table does not have
C10_Witness ==
    /\ pc = "done"
    /\ NumRows(data) = 0
    /\ Len(data.columns) > 0
    /\ subset = ListSubset(<<"Zip">>)
    /\ range_arg = <<100, 50>>
    /\ NumRows(data_cleaned_fuzzy) = 0
    /\ NumRows(data_cleaned_drop) = 0

---------------------------------------------------------------------------
(* C11: when the comparison column set of handle_duplicate_values_fuzzy is *)
(* empty after subset resolution, on a table of two or more rows no pair   *)
(* is found similar and the table is returned unchanged without an error.  *)
(* Violated: the first pair divides the sum of no ratios by their number.  *)
C11_NoColumnsReturnsInput ==
    (pc = "done" /\ NumRows(data) >= 2 /\ ResolveColumns(data, subset) = <<>>) =>
        /\ fuzzy_exc = "none"
        /\ data_duplicated_index_show = <<>>
        /\ data_cleaned_fuzzy = data

---------------------------------------------------------------------------
(* C12: handle_duplicate_values_fuzzy called on a table of two or more     *)
(* rows with a subset that names a column the table does not have returns  *)
(* the table unchanged and raises nothing.  Violated: the lookup of the    *)
(* missing column in the first pair raises.                                *)
C12_MissingColumnReturnsInput ==
    (pc = "done" /\ NumRows(data) >= 2 /\ Truthy(subset)
        /\ \E c \in Range(subset.cols) : c \notin Range(data.columns)) =>
        /\ fuzzy_exc = "none"
        /\ data_cleaned_fuzzy = data

---------------------------------------------------------------------------
(* C13 *)

\* handle_duplicate_values_drop has returned
DropReturned == pc # "start" /\ drop_exc = "none"

\* the rows of t labelled x and y have the same value in every column of cols
SameCombination(t, cols, x, y) ==
    \A m \in 1..Len(cols) : Loc(t, x, cols[m]) = Loc(t, y, cols[m])

---------------------------------------------------------------------------
(* C14 *)

\* what the calls in progress have given so far, as CallAgain records it
CurrentCall ==
    [data |-> data, subset |-> subset, range_arg |-> range_arg,
     drop_exc |-> drop_exc, data_cleaned_drop |-> data_cleaned_drop,
     fuzzy_exc |-> fuzzy_exc, data_cleaned_fuzzy |-> data_cleaned_fuzzy]

\* the earlier calls, followed by the current ones once both have ended
EndedCalls == IF pc = "done" THEN Append(returned, CurrentCall) ELSE returned

(* C14: a call to handle_duplicate_values_drop or                          *)
(* handle_duplicate_values_fuzzy leaves the caller's table as it was, the  *)
(* pair loop starts from an empty cluster list, and any two calls on the   *)
(* table with the same subset (and, for the fuzzy function, the same       *)
(* range) end the same way, with the same table returned or the same       *)
(* exception raised, whatever calls were made in between.                  *)
C14_CallsArePure ==
    /\ \A m \in 1..Len(returned) : returned[m].data = data
    /\ (pc = "pairs" /\ k = 1) => data_duplicated_sets = <<>>
    /\ \A m, n \in 1..Len(EndedCalls) :
          LET a == EndedCalls[m]
              b == EndedCalls[n]
          IN
          /\ a.subset = b.subset =>
                /\ a.drop_exc = b.drop_exc
                /\ a.data_cleaned_drop = b.data_cleaned_drop
          /\ (a.subset = b.subset /\ a.range_arg = b.range_arg) =>
                /\ a.fuzzy_exc = b.fuzzy_exc
                /\ a.data_cleaned_fuzzy = b.data_cleaned_fuzzy

\* the third calls have ended as the first did, with rows dropped, after
\* second calls with other arguments that returned another table
C14_Witness ==
    /\ pc = "done"
    /\ Len(returned) = 2
    /\ returned[1].subset = subset
    /\ returned[1].range_arg = range_arg
    /\ returned[2].range_arg # range_arg
    /\ fuzzy_exc = "none"
    /\ 0 < NumRows(data_cleaned_fuzzy)
    /\ NumRows(data_cleaned_fuzzy) < NumRows(data)
    /\ returned[1].data_cleaned_fuzzy = data_cleaned_fuzzy
    /\ returned[2].data_cleaned_fuzzy # data_cleaned_fuzzy
    /\ returned[2].fuzzy_exc = "none"

---------------------------------------------------------------------------
(* C15: for a scenario whose 'column', 'datatype' and 'format' lists do    *)
(* not all have the same length, convert_datatype_ud returns the table     *)
(* with no column converted, whatever the entries of the lists are.        *)
(* Violated: the lengths are not compared, zip cuts the lists to the       *)
(* shortest, and the conversions of the triples that remain are made.      *)
C15_DefectedScenarioConvertsNothing ==
    (Len(convert_scenario.column) # Len(convert_scenario.datatype)
        \/ Len(convert_scenario.datatype) # Len(convert_scenario.format)) =>
        ud_data = ud_original

---------------------------------------------------------------------------
(* C16 *)

\* the positions at which the scenario has a column, a datatype and a format
Conversions ==
    {m \in 1..Len(convert_scenario.column) :
        m <= Len(convert_scenario.datatype) /\ m <= Len(convert_scenario.format)}

\* a scenario column, trimmed, is not a column of the table
ScenarioColumnMissing ==
    \E m \in 1..Len(convert_scenario.column) :
        \A p \in 1..Len(ud_original.columns) :
            ud_original.columns[p] # Strip(convert_scenario.column[m])

\* a datatype, trimmed, is not one of float, int, datetime
ScenarioDatatypeUnknown ==
    \E m \in 1..Len(convert_scenario.datatype) :
        /\ Strip(convert_scenario.datatype[m]) # <<"f", "l", "o", "a", "t">>
        /\ Strip(convert_scenario.datatype[m]) # <<"i", "n", "t">>
        /\ Strip(convert_scenario.datatype[m]) # <<"d", "a", "t", "e", "t", "i", "m", "e">>

\* a format is given for a conversion that is not to datetime
ScenarioFormatForOther ==
    \E m \in Conversions :
        /\ Strip(convert_scenario.format[m]) # <<>>
        /\ Strip(convert_scenario.datatype[m]) # <<"d", "a", "t", "e", "t", "i", "m", "e">>

\* a conversion to datetime has an empty format
ScenarioFormatMissing ==
    \E m \in Conversions :
        /\ Strip(convert_scenario.format[m]) = <<>>
        /\ Strip(convert_scenario.datatype[m]) = <<"d", "a", "t", "e", "t", "i", "m", "e">>

(* C16: when a scenario column (names compared after trimming) is not in   *)
(* the table, a datatype is not one of float/int/datetime, a format is     *)
(* given for a non-datetime conversion, or a datetime conversion has an    *)
(* empty format, convert_datatype_ud never enters its conversion loop and  *)
(* returns the table with no column converted, having logged one of the    *)
(* four validation errors.                                                 *)
C16_ValidationFailureConvertsNothing ==
    (ud_pc # "idle" /\ (ScenarioColumnMissing \/ ScenarioDatatypeUnknown
                          \/ ScenarioFormatForOther \/ ScenarioFormatMissing)) =>
        /\ ud_data = ud_original
        /\ ud_pc \in {"start", "returned"}
        /\ ud_pc = "returned" =>
              ud_error \in {"column", "datatype", "format_given", "format_missing"}

\* the function has returned on the missing format of a datetime conversion,
\* the scenario also asking for a conversion to int that would have been made
C16_Witness ==
    /\ ud_pc = "returned"
    /\ ud_error = "format_missing"
    /\ ud_data = ud_original
    /\ \E m \in Conversions :
          /\ convert_scenario.column[m] = HighSchoolPercentage
          /\ convert_scenario.datatype[m] = IntName

---------------------------------------------------------------------------
(* C17 *)

\* the name, trimmed, is a column of the table of a numeric dtype
IsNumericColumnOf(t, name) ==
    \E p \in 1..Len(t.columns) :
        t.columns[p] = Strip(name) /\ t.dtype[t.columns[p]] \in {"int64", "float64"}

ScaleLengthsDiffer == Len(scale_scenario.column) # Len(scale_scenario.scaling_method)

ScaleColumnNotNumeric ==
    \E m \in 1..Len(scale_scenario.column) :
        ~IsNumericColumnOf(sf_original, scale_scenario.column[m])

ScaleMethodUnknown ==
    \E m \in 1..Len(scale_scenario.scaling_method) :
        /\ Strip(scale_scenario.scaling_method[m]) # MINMAX_SCALING
        /\ Strip(scale_scenario.scaling_method[m]) # ZSCORE_STANDARDIZATION
        /\ Strip(scale_scenario.scaling_method[m]) # ROBUST_SCALING

(* C17: when the 'column' and 'scaling_method' lists have different        *)
(* lengths, or a listed column is not a numeric column of the table, or a  *)
(* method name is not one of MINMAX_SCALING, ZSCORE_STANDARDIZATION,       *)
(* ROBUST_SCALING (names compared after trimming), scale_feature never     *)
(* enters its scaling loop and returns the table with every cell           *)
(* unchanged, normalization asked for or not: no column is scaled before   *)
(* all three checks have passed.                                           *)
C17_ScaleValidationFailureChangesNothing ==
    (sf_pc # "idle" /\ (ScaleLengthsDiffer \/ ScaleColumnNotNumeric \/ ScaleMethodUnknown)) =>
        /\ sf_data = sf_original
        /\ sf_pc \in {"start", "returned"}
        /\ sf_pc = "returned" => sf_error \in {"length", "columns", "method"}

\* the function has returned on an unknown method name, the first column
\* and method of the scenario being valid and normalization asked for
C17_Witness ==
    /\ sf_pc = "returned"
    /\ sf_error = "method"
    /\ apply_l2normalization
    /\ Len(scale_scenario.column) = 2
    /\ IsNumericColumnOf(sf_original, scale_scenario.column[1])
    /\ scale_scenario.scaling_method[1] = MINMAX_SCALING
    /\ sf_data = sf_original

---------------------------------------------------------------------------
(* C18 *)

\* the column is of the kind the called function asks for: numeric in
\* scale_feature.py and handle_outliers.py, not numeric in encode_categorical.py
OfRequiredKind(c) ==
    (oc_data.dtype[c] \in {"int64", "float64"}) <=> (oc_pc = "numeric")

\* the requested name, trimmed, is a column of the table of the required kind
ValidRequest(name) ==
    \E p \in 1..Len(oc_data.columns) :
        oc_data.columns[p] = Strip(name) /\ OfRequiredKind(oc_data.columns[p])

(* C18: get_observing_columns returns the empty list when a requested      *)
(* name, trimmed, is not a column of the required kind (a name the table   *)
(* does not have included); the trimmed requested names in the given order *)
(* when all are valid; and, when the subset is None or empty, all columns  *)
(* of the required kind, in the order of the table.                        *)
C18_ObservingColumns ==
    oc_pc \in {"numeric", "categorical"} =>
        LET requested == columns_subset.cols
            given == ~columns_subset.is_none /\ Len(requested) > 0
        IN
        /\ (given /\ \E m \in 1..Len(requested) : ~ValidRequest(requested[m])) =>
              observing_columns = <<>>
        /\ (given /\ \A m \in 1..Len(requested) : ValidRequest(requested[m])) =>
              /\ Len(observing_columns) = Len(requested)
              /\ \A m \in 1..Len(requested) : observing_columns[m] = Strip(requested[m])
        /\ ~given =>
              /\ \A c \in Range(oc_data.columns) :
                    OfRequiredKind(c) <=> c \in Range(observing_columns)
              /\ \A m, n \in 1..Len(observing_columns) :
                    m < n => ColumnPos(oc_data.columns, observing_columns[m])
                                 < ColumnPos(oc_data.columns, observing_columns[n])

\* the function of encode_categorical.py has returned the two trimmed names
\* of a subset given with whitespace, in the order given
C18_Witness ==
    /\ oc_pc = "categorical"
    /\ oc_data = encode_sample_data
    /\ Len(columns_subset.cols) = 2
    /\ columns_subset.cols[2] # Strip(columns_subset.cols[2])
    /\ Len(observing_columns) = 2
    /\ observing_columns[1] # observing_columns[2]
    /\ observing_columns[2] = oc_data.columns[1]

---------------------------------------------------------------------------
(* C19 *)

\* the index label is in the outlier list of the column
Listed(c, r) == c \in Range(outliers.keys) /\ r \in Range(outliers.of[c])

\* the position of the index label in the table given to handle_outliers
PositionOf(r) == CHOOSE p \in 1..Len(ho_original.index) : ho_original.index[p] = r

OutlierRowsDropped == ho_pc = "returned" /\ handle_outlier_method = DROP

(* C19: handle_outliers with method DROP returns exactly the rows whose    *)
(* index is in no column's outlier list, in their original order and with  *)
(* their cells; when the outliers dict is empty or every list in it is     *)
(* empty, the table is returned with all its rows.                         *)
C19_DropReturnsUnlistedRows ==
    OutlierRowsDropped =>
        /\ ho_data.columns = ho_original.columns
        /\ ho_data.index =
               SelectSeq(ho_original.index,
                         LAMBDA r : \A c \in Range(ho_original.columns) : ~Listed(c, r))
        /\ \A c \in Range(ho_original.columns) :
              /\ Len(ho_data.cells[c]) = Len(ho_data.index)
              /\ \A m \in 1..Len(ho_data.index) :
                    ho_data.cells[c][m] = ho_original.cells[c][PositionOf(ho_data.index[m])]
        /\ (\A c \in Range(outliers.keys) : outliers.of[c] = <<>>) => ho_data = ho_original

\* DROP has returned some rows but not all, two columns listing rows the
\* other does not list
C19_Witness ==
    /\ OutlierRowsDropped
    /\ Len(ho_data.index) > 0
    /\ Len(ho_data.index) < Len(ho_original.index)
    /\ \E c, d \in Range(outliers.keys) :
          /\ \E r \in Range(outliers.of[c]) : ~Listed(d, r)
          /\ \E r \in Range(outliers.of[d]) : ~Listed(c, r)

---------------------------------------------------------------------------
(* C20 *)

\* the number in a cell, whatever the dtype that holds it
ValueOf(cell) ==
    IF "n" \in DOMAIN cell THEN [number |-> <<cell.n, 1>>]
    ELSE IF "f" \in DOMAIN cell THEN [number |-> FracNorm(cell.f)]
    ELSE [other |-> cell]

\* the cell is not below lower and not above upper; a cell holding a
\* boundary of the column holds lower or upper itself
InsideBoundries(cell, bs) ==
    IF "root" \in DOMAIN cell
    THEN \/ cell.sign = -1 /\ cell.base = bs[1].base /\ cell.root = bs[1].root
         \/ cell.sign = 1 /\ cell.base = bs[2].base /\ cell.root = bs[2].root
    ELSE ~Below(ValueOf(cell).number, bs[1]) /\ ~Above(ValueOf(cell).number, bs[2])

KeepsRows == ho_pc # "idle" /\ handle_outlier_method \in {REPLACE_WITH_MEDIAN, CAP_WITH_BOUNDARIES}

(* C20: with REPLACE_WITH_MEDIAN or CAP_WITH_BOUNDARIES handle_outliers    *)
(* removes no row, and the value of the cell of row r and column c differs *)
(* from the value given only if r is in outliers[c], at every step of the  *)
(* call: every other cell, and every column with an empty list, keeps its  *)
(* values. When CAP_WITH_BOUNDARIES has returned, every listed cell is not *)
(* below lower and not above upper of its column.                          *)
C20_OnlyListedCellsChange ==
    KeepsRows =>
        /\ ho_data.columns = ho_original.columns
        /\ ho_data.index = ho_original.index
        /\ \A c \in Range(ho_original.columns) :
              /\ Len(ho_data.cells[c]) = Len(ho_original.index)
              /\ \A p \in 1..Len(ho_original.index) :
                    ValueOf(ho_data.cells[c][p]) # ValueOf(ho_original.cells[c][p])
                        => Listed(c, ho_original.index[p])
        /\ (ho_pc = "returned" /\ handle_outlier_method = CAP_WITH_BOUNDARIES) =>
              \A c \in Range(outliers.keys) :
                  \A r \in Range(outliers.of[c]) :
                      InsideBoundries(ho_data.cells[c][PositionOf(r)], boundries.of[c])

\* CAP_WITH_BOUNDARIES has returned, a listed cell has changed and a column
\* of the dict has an empty list
C20_Witness ==
    /\ ho_pc = "returned"
    /\ handle_outlier_method = CAP_WITH_BOUNDARIES
    /\ \E c \in Range(outliers.keys) : outliers.of[c] = <<>>
    /\ \E c \in Range(outliers.keys) :
          \E r \in Range(outliers.of[c]) :
              ValueOf(ho_data.cells[c][PositionOf(r)])
                  # ValueOf(ho_original.cells[c][PositionOf(r)])

---------------------------------------------------------------------------
(* C23 *)

\* the pair of the iteration of the pair loop that is being taken
StepPair == Combinations2(data.index)[k]

\* the pair of the iteration is accepted
StepAccepted == PairInRange(StepPair[1], StepPair[2], GivenLow, GivenHigh)

\* the places of the cluster list the iteration changes or adds
ChangedClusters ==
    {m \in 1..Len(data_duplicated_sets') :
        m > Len(data_duplicated_sets) \/ data_duplicated_sets'[m] # data_duplicated_sets[m]}

\* the places of the clusters that hold a row of the pair of the iteration
Holders ==
    {m \in 1..Len(data_duplicated_sets) :
        StepPair[1] \in data_duplicated_sets[m] \/ StepPair[2] \in data_duplicated_sets[m]}

\* the first cluster that holds i or j gains both and the others stay; with
\* no such cluster {i, j} is appended and the others stay
FirstHolderGainsBoth ==
    IF Holders # {}
    THEN /\ Len(data_duplicated_sets') = Len(data_duplicated_sets)
         /\ \A m \in 1..Len(data_duplicated_sets) :
                data_duplicated_sets'[m] =
                    IF m = MinOf(Holders)
                    THEN data_duplicated_sets[m] \cup {StepPair[1], StepPair[2]}
                    ELSE data_duplicated_sets[m]
    ELSE /\ Len(data_duplicated_sets') = Len(data_duplicated_sets) + 1
         /\ data_duplicated_sets'[Len(data_duplicated_sets')] = {StepPair[1], StepPair[2]}
         /\ \A m \in 1..Len(data_duplicated_sets) :
                data_duplicated_sets'[m] = data_duplicated_sets[m]

(* C23 as stated: an accepted pair changes exactly one cluster, the first  *)
(* one that holds i or j, or the new one {i, j}; a pair that is not        *)
(* accepted changes none.  Violated by three rows accepted two by two: the *)
(* pair (1, 2) finds both rows in the cluster {0, 1, 2} and changes        *)
(* nothing.                                                                *)
C23_ExactlyOneClusterChanges ==
    [][PairStepTaken =>
        /\ StepAccepted => (Cardinality(ChangedClusters) = 1 /\ FirstHolderGainsBoth)
        /\ ~StepAccepted => ChangedClusters = {}]_vars

(* C23 amended: an accepted pair changes at most one cluster: the first    *)
(* cluster of the list that holds i or j gains both (it stays as it is     *)
(* when it holds both already) and every other cluster is unchanged, no    *)
(* cluster merged or removed; with no such cluster a new cluster {i, j}    *)
(* is appended and the others are unchanged.  A pair that is not accepted  *)
(* changes no cluster.                                                     *)
C23_AtMostOneClusterChanges ==
    [][PairStepTaken =>
        /\ StepAccepted =>
              /\ Cardinality(ChangedClusters) <= 1
              /\ FirstHolderGainsBoth
              /\ ChangedClusters = {} <=>
                    \E m \in 1..Len(data_duplicated_sets) :
                        /\ m = MinOf(Holders \cup {m})
                        /\ m \in Holders
                        /\ {StepPair[1], StepPair[2]} \subseteq data_duplicated_sets[m]
        /\ ~StepAccepted => ChangedClusters = {}]_vars

\* the accepted pair just processed joined the first of two clusters, of
\* which the second holds one of its rows too
C23_Witness ==
    /\ pc = "pairs"
    /\ k > 1
    /\ Len(data_duplicated_sets) = 2
    /\ LET pr == Combinations2(data.index)[k - 1] IN
          /\ PairInRange(pr[1], pr[2], GivenLow, GivenHigh)
          /\ {pr[1], pr[2]} \subseteq data_duplicated_sets[1]
          /\ pr[1] \in data_duplicated_sets[2]
          /\ pr[2] \notin data_duplicated_sets[2]

---------------------------------------------------------------------------
(* C24 *)

\* the rows a chain of pairs joins to a row of S
RECURSIVE Component(_, _)
Component(S, pairs) ==
    LET T == S \cup {x \in UNION {{pr[1], pr[2]} : pr \in pairs} :
                       \E pr \in pairs : {pr[1], pr[2]} \cap S # {} /\ x \in {pr[1], pr[2]}}
    IN IF T = S THEN S ELSE Component(T, pairs)

\* the accepted pairs of the call are (0,3), (1,2) and (2,3)
BridgedLate ==
    /\ data.index = <<0, 1, 2, 3>>
    /\ AcceptedPairs = {<<0, 3>>, <<1, 2>>, <<2, 3>>}

(* C24: on a table of four rows whose accepted pairs are exactly (0,3),    *)
(* (1,2) and (2,3) the four rows are one connected component of the        *)
(* accepted pairs, the pair loop ends with the two clusters {0,2,3} and    *)
(* {1,2}, and the returned table keeps the rows 0 and 1: row 1 is kept     *)
(* although it is not the smallest row of its component.                   *)
C24_ChainSplitAcrossClusters ==
    BridgedLate =>
        /\ Component({1}, AcceptedPairs) = {0, 1, 2, 3}
        /\ LoopFinished => data_duplicated_sets = <<{0, 2, 3}, {1, 2}>>
        /\ FuzzyReturned => Labels(data_cleaned_fuzzy) = {0, 1}

\* the call on such a table has returned a table with row 1
C24_Witness ==
    /\ BridgedLate
    /\ FuzzyReturned
    /\ 1 \in Labels(data_cleaned_fuzzy)
    /\ MinOf(Component({1}, AcceptedPairs)) = 0

---------------------------------------------------------------------------
(* C25 *)

\* the closed form of the rows dropped
ClosedFormDropped(x, acc) ==
    \/ \E i \in Labels(data) : <<i, x>> \in acc
    \/ \E a, j \in Labels(data) :
          a < x /\ x < j /\ <<x, j>> \in acc /\ <<a, j>> \in acc

(* C25: when handle_duplicate_values_fuzzy returns, row x is dropped       *)
(* exactly when an accepted pair (i, x) has i < x, or accepted pairs       *)
(* (x, j) and (a, j) have a < x < j; the first row is never dropped.       *)
C25_ClosedFormOfDropSet ==
    FuzzyReturned =>
        /\ LET acc == AcceptedPairs IN
           \A x \in Labels(data) :
              x \notin Labels(data_cleaned_fuzzy) <=> ClosedFormDropped(x, acc)
        /\ NumRows(data) > 0 => data.index[1] \in Labels(data_cleaned_fuzzy)

\* a row dropped with no accepted pair to an earlier row
C25_Witness ==
    /\ FuzzyReturned
    /\ LET acc == AcceptedPairs IN
       \E x \in Labels(data) :
          /\ x \notin Labels(data_cleaned_fuzzy)
          /\ ~\E i \in Labels(data) : <<i, x>> \in acc

---------------------------------------------------------------------------
(* C26 *)

\* the call in progress is the one on the table the call before returned
AppliedAgain ==
    /\ Len(returned) > 0
    /\ returned[Len(returned)].fuzzy_exc = "none"
    /\ data = returned[Len(returned)].data_cleaned_fuzzy
    /\ subset = returned[Len(returned)].subset
    /\ range_arg = returned[Len(returned)].range_arg

(* C26: no two rows of the table handle_duplicate_values_fuzzy returns are *)
(* an accepted pair, and the function applied to that table with the same  *)
(* subset and ratio_range puts no pair into a cluster, raises nothing and  *)
(* returns the table as it is.                                             *)
C26_FuzzyIdempotent ==
    /\ FuzzyReturned =>
          \A pr \in AcceptedPairs : ~({pr[1], pr[2]} \subseteq Labels(data_cleaned_fuzzy))
    /\ AppliedAgain =>
          /\ AcceptedPairs = {}
          /\ fuzzy_exc = "none"
          /\ pc = "pairs" => data_duplicated_sets = <<>>
          /\ pc = "done" =>
                (data_duplicated_index_drop = <<>> /\ data_cleaned_fuzzy = data)

\* the second application has returned, on a table the first one had
\* dropped rows from
C26_Witness ==
    /\ AppliedAgain
    /\ pc = "done"
    /\ NumRows(data) >= 2
    /\ NumRows(returned[Len(returned)].data) > NumRows(data)
    /\ data_cleaned_fuzzy = data

---------------------------------------------------------------------------
(* C27: an iteration of the pair loop leaves a cluster list in which every *)
(* cluster has at least two members, every cluster that was there keeps    *)
(* its smallest index, a cluster the iteration adds has the first row of   *)
(* the pair as its smallest index, and the smallest indices strictly       *)
(* increase along the list.                                                *)
C27_ClusterMinimaIncrease ==
    [][PairStepTaken =>
        /\ Len(data_duplicated_sets') >= Len(data_duplicated_sets)
        /\ \A m \in 1..Len(data_duplicated_sets') :
              /\ Cardinality(data_duplicated_sets'[m]) >= 2
              /\ m <= Len(data_duplicated_sets) =>
                    MinOf(data_duplicated_sets'[m]) = MinOf(data_duplicated_sets[m])
              /\ m > Len(data_duplicated_sets) =>
                    MinOf(data_duplicated_sets'[m]) = StepPair[1]
        /\ \A m, n \in 1..Len(data_duplicated_sets') :
              m < n => MinOf(data_duplicated_sets'[m]) < MinOf(data_duplicated_sets'[n])]_vars

\* two clusters, of which one has grown beyond its first pair
C27_Witness ==
    /\ pc = "pairs"
    /\ Len(data_duplicated_sets) >= 2
    /\ \E m \in 1..Len(data_duplicated_sets) : Cardinality(data_duplicated_sets[m]) >= 3

---------------------------------------------------------------------------
(* C28 *)

\* the conversion of entry ud_k of the scenario has raised
ConversionRaised == ud_pc = "returned" /\ ud_error \in {"ValueError", "TypeError"}

\* the column of entry m of the zipped scenario
EntryColumn(m) == convert_scenario_zipped[m][1]

\* the dtypes a column has after the conversion to dt went through
ConvertedDtypes(dt) ==
    IF dt = IntName THEN {"int64"}
    ELSE IF dt = FloatName THEN {"float64"}
    ELSE {"datetime64", "int64", "float64"}

\* the entries before the one that raised are converted
PrecedingStayConverted ==
    \A m \in 1..(ud_k - 1) :
        (\A n \in (m + 1)..(ud_k - 1) : EntryColumn(n) # EntryColumn(m)) =>
            ud_data.dtype[EntryColumn(m)] \in ConvertedDtypes(convert_scenario_zipped[m][2])

(* C28 as stated: when the conversion of entry k raises, the function      *)
(* returns, the columns of the entries before k stay converted, and the    *)
(* column of entry k and of every later entry has its original type.       *)
(* Violated by a scenario that names a column twice: 'Test Date' to        *)
(* datetime, then 'Test Date' to float, which raises on a column that is   *)
(* datetime64 by then.                                                     *)
C28_LaterColumnsKeepOriginalType ==
    ConversionRaised =>
        /\ PrecedingStayConverted
        /\ \A m \in ud_k..Len(convert_scenario_zipped) :
              ud_data.dtype[EntryColumn(m)] = ud_original.dtype[EntryColumn(m)]

(* C28 amended: when the conversion of entry k of a validated scenario     *)
(* raises, the function returns the table without raising; the columns of  *)
(* the entries before k stay converted, and every column that no entry     *)
(* before k names, the column of entry k and of the later entries among    *)
(* them, has its original type and values.                                 *)
C28_RaiseKeepsEarlierConversions ==
    ConversionRaised =>
        /\ ud_k \in 1..Len(convert_scenario_zipped)
        /\ ValidationError(ud_original, convert_scenario) = "none"
        /\ PrecedingStayConverted
        /\ \A c \in Range(ud_data.columns) :
              (\A m \in 1..(ud_k - 1) : EntryColumn(m) # c) =>
                  /\ ud_data.dtype[c] = ud_original.dtype[c]
                  /\ ud_data.cells[c] = ud_original.cells[c]

\* the second entry raised after the first converted another column
C28_Witness ==
    /\ ConversionRaised
    /\ ud_k = 2
    /\ EntryColumn(1) # EntryColumn(2)
    /\ ud_data.dtype[EntryColumn(1)] # ud_original.dtype[EntryColumn(1)]
    /\ ud_data.dtype[EntryColumn(2)] = ud_original.dtype[EntryColumn(2)]

---------------------------------------------------------------------------
(* C21 *)

\* the call with the forward method has returned
ForwardReturned == mv_pc = "returned" /\ adjancent_imputation_method = Forward

\* the cells of column c at the call and in the table returned
CellsBefore(c) == mv_original.cells[c]

CellsAfter(c) == mv_returned.cells[c]

\* the nearest position above p with a cell that was not missing
NearestAbove(c, p) ==
    CHOOSE q \in 1..(p - 1) :
        /\ ~IsMissing(CellsBefore(c)[q])
        /\ \A r \in (q + 1)..(p - 1) : IsMissing(CellsBefore(c)[r])

---------------------------------------------------------------------------
(* C22 *)

\* the cell cannot be read as a datetime
NotADatetime(cell) ==
    /\ ~IsMissing(cell)
    /\ "d" \notin DOMAIN cell
    /\ IsStrCell(cell) => ToDatetime(IsoFormat, cell.s) = {}

\* time_reference_col names a column of the table that holds a cell that
\* cannot be read as a datetime
TimeColumnUnparsable ==
    /\ time_reference_col \in Range(mv_original.columns)
    /\ \E p \in 1..Len(mv_original.cells[time_reference_col]) :
          NotADatetime(mv_original.cells[time_reference_col][p])

(* C22: a call with the time interpolation method and an empty             *)
(* time_reference_col, or one that names a column that cannot be parsed as *)
(* datetimes, returns an empty table, raises nothing and leaves the table  *)
(* as it was.  Violated by a column of bools: pd.to_datetime raises        *)
(* TypeError, and only ValueError is caught.                               *)
C22_TimeWithoutDatetimesReturnsEmpty ==
    (/\ mv_pc \in {"returned", "raised"}
     /\ adjancent_imputation_method = Interpolation_Time
     /\ (time_reference_col = <<>> \/ TimeColumnUnparsable)) =>
        /\ mv_pc = "returned"
        /\ mv_exc = "none"
        /\ mv_returned = NoFrame
        /\ mv_data = mv_original

---------------------------------------------------------------------------
(* C29 *)

\* the run has changed nothing in the output directory
DirectoryUntouched ==
    /\ fs_log = <<>>
    /\ dir_exists = dir_before.exists
    /\ dir_files = dir_before.files

(* C29: main() of every script removes the output directory, creates it    *)
(* and writes into it only when the dataset was loaded with rows, the      *)
(* removal first, then the creation, then the files; when the load fails   *)
(* or the dataset has no rows main() returns and the directory and its     *)
(* files are as they were.                                                 *)
C29_DirectoryOnlyAfterLoad ==
    /\ ~DirectoryUntouched => (argv_case = "matched" /\ dataset_file = "rows")
    /\ \A p \in 1..Len(fs_log) :
          /\ fs_log[p] = "rmtree" => p = 1
          /\ fs_log[p] = "makedirs" => \A q \in 1..(p - 1) : fs_log[q] = "rmtree"
          /\ fs_log[p] \in {"to_csv", "savefig"} =>
                \E q \in 1..(p - 1) : fs_log[q] = "makedirs"
    /\ (argv_case = "matched" /\ dataset_file # "rows" /\ main_pc # "start") =>
          (main_pc = "returned" /\ main_exc = "none" /\ DirectoryUntouched)

\* a run on a csv without rows has returned and the files of the directory
\* are still there
C29_Witness ==
    /\ main_pc = "returned"
    /\ argv_case = "matched"
    /\ dataset_file = "no rows"
    /\ dir_exists
    /\ dir_files = {StaleFile}

---------------------------------------------------------------------------
(* C30: in main() of every script, once a dataset with rows is loaded, the *)
(* output directory exists and is empty before the first output, whether   *)
(* it existed before the run or not, and the run does not fail for a       *)
(* directory that was missing.  Violated by handle_missing_values.py:      *)
(* shutil.rmtree is called without a test of path.exists and raises        *)
(* FileNotFoundError when the directory is not there.                      *)
C30_DirectoryReadyBeforeFirstOutput ==
    (argv_case = "matched" /\ dataset_file = "rows") =>
        /\ main_exc # "FileNotFoundError"
        /\ (main_pc = "created" /\ out_k = 1) => (dir_exists /\ dir_files = {})

===========================================================================
